---- MODULE Spec2Model ----
(***************************************************************************)
(* Tap2Fill web client: local-first synchronisation core.                  *)
(*                                                                         *)
(* One page session of the React app (apps/web/src/app/App.tsx) with its   *)
(* hooks useOutboxSync, useServerRestore, useLocalRestore, useUndoHistory  *)
(* and useTapToFillHandlers, the IndexedDB records they persist, and the   *)
(* worker's idempotent /v1/me/state upsert.                                *)
(*                                                                         *)
(* Every `await` of the source is a step boundary: the step that completes *)
(* an awaited storage or network call applies its effect and runs the      *)
(* continuation up to the next await.  React state set by setX(...) is     *)
(* visible to the *Ref mirrors only after the render's effects have run    *)
(* (action RenderEffects).  setServerState only feeds the debug panel and   *)
(* is not modelled.                                                        *)
(***************************************************************************)
EXTENDS Integers, Sequences, FiniteSets, TLC

(* ------------------------------ bounds --------------------------------- *)
\* mutations (commit() calls) a behaviour may start
MaxCommits == 2
\* highest revision another device writes to the server
MaxServerRev == 2
\* how often the network may go down
MaxNetFails == 1
\* how often the app may be reloaded
MaxReloads == 1
\* enqueueMeState calls in a row without a clear in between
MaxEnqueues == 3
\* longest undo stack handed to popSnapshotBudgeted when it is called alone
MaxStackLen == 3
\* longest packed text (in bytes) and longest undo stack of a snapshot handed
\* to savePageSnapshot / found in the store by loadPageSnapshot
MaxBytesLen == 3
MaxSnapStackLen == 2
\* longest regionOrder / palette list handed to compilePackContext
MaxListLen == 2
\* most entries of a fill map handed to packFillMapToBytesWithContext
MaxFillEntries == 2
\* regions of the page / colours of the palette
RegionsCount == 2
PaletteLen == 1
\* slots for overlapping commit() calls and flushOnce() invocations
CommitIds == {1, 2}
FlushIds == {1, 2}

(* -------------------------- program constants -------------------------- *)
UNPAINTED == 255
UNDO_BUDGET_PER_SESSION == 5
MAX_UNDO_STACK == 64
undoStackMax == 64

DEMO_PAGE_ID == "page_demo_1"
\* the page another device of the user has open
OTHER_PAGE_ID == "page_other"
Pages == {DEMO_PAGE_ID, OTHER_PAGE_ID}
\* JS null for a page id
NullPage == "null"
\* JS null for an object; Some(x) is a present object
None == <<>>
Some(x) == <<x>>

Max(a, b) == IF a >= b THEN a ELSE b
\* JS s.slice(0, n)
Take(s, n) == SubSeq(s, 1, IF Len(s) < n THEN Len(s) ELSE n)

(* ------------------------- progress (pack.ts) -------------------------- *)
\* A packed progress text is modelled by the byte sequence it decodes to;
\* the empty string "" is the empty sequence (it decodes to no bytes).
makeEmptyProgressBytes(rc) == [i \in 1..rc |-> UNPAINTED]

\* decodeBase64ToBytes(...).ok
decodeOk(p, rc, pl) ==
    /\ p # <<>>
    /\ Len(p) = rc
    /\ \A i \in 1..Len(p) : p[i] = UNPAINTED \/ p[i] < pl

sanitizePackedProgress(p, rc, pl) ==
    IF p = <<>> THEN makeEmptyProgressBytes(rc)
    ELSE IF ~decodeOk(p, rc, pl) THEN makeEmptyProgressBytes(rc)
    ELSE p

sanitizeProgressB64(p, rc, pl) ==
    IF rc = 0 THEN <<>>
    ELSE IF p = <<>> THEN makeEmptyProgressBytes(rc)
    ELSE IF ~decodeOk(p, rc, pl) THEN makeEmptyProgressBytes(rc)
    ELSE p

\* 4 * ceil(n / 3): the base64 text length of n bytes
expectedBase64LenForBytesLen(n) == 4 * ((n + 2) \div 3)

\* sanitizeUndoStackB64 (snapshot.ts:183-207): the first MAX_UNDO_STACK
\* entries that are non-empty and whose text has the expected length
sanitizeUndoStackB64(stack, expectedB64Len) ==
    LET keep(s) == /\ s # <<>>
                   /\ expectedBase64LenForBytesLen(Len(s)) = expectedB64Len
    IN  Take(SelectSeq(stack, keep), MAX_UNDO_STACK)

\* safeArrayOfStrings(v, 64): drops empty strings, keeps the first maxLen
safeArrayOfStrings(v, maxLen) ==
    LET nonEmpty(x) == x # <<>>
    IN  Take(SelectSeq(v, nonEmpty), maxLen)

\* buildSnapshot followed by the normalisation savePageSnapshot does before
\* it writes: the record that reaches storage.
buildSnapshot(rev, p, stack, used) ==
    [clientRev |-> Max(0, rev),
     progressB64 |-> sanitizePackedProgress(p, RegionsCount, PaletteLen),
     undoStackB64 |-> safeArrayOfStrings(stack, 64),
     undoBudgetUsed |-> Max(0, used)]

savePageSnapshot(snap) ==
    LET p == sanitizeProgressB64(snap.progressB64, RegionsCount, PaletteLen)
        expected == IF RegionsCount > 0 THEN expectedBase64LenForBytesLen(RegionsCount) ELSE 0
    IN  [clientRev |-> snap.clientRev,
         progressB64 |-> p,
         undoStackB64 |-> sanitizeUndoStackB64(snap.undoStackB64, expected),
         undoBudgetUsed |-> IF snap.undoBudgetUsed > MAX_UNDO_STACK
                            THEN MAX_UNDO_STACK ELSE snap.undoBudgetUsed]

\* loadPageSnapshot -> normalizeV2 on a stored v2 record
loadPageSnapshot(stored) ==
    IF stored = None THEN None
    ELSE Some(savePageSnapshot(stored[1]))

(* ------------------------- undo (useUndoHistory) ----------------------- *)
\* Infinity (budget <= 0: unlimited) is modelled by 1: callers only test > 0
computeUndoLeft(budget, used) ==
    IF budget <= 0 THEN 1 ELSE Max(0, budget - used)

clampUsed(used) == Max(0, used)

\* a pop that would not look at the budget
popSnapshotUnbudgeted(stack, used, budget) ==
    IF Len(stack) <= 0
    THEN [ret |-> None, stack |-> stack, used |-> used]
    ELSE [ret |-> Some([packedB64 |-> stack[Len(stack)],
                        nextStack |-> SubSeq(stack, 1, Len(stack) - 1),
                        nextUsed |-> clampUsed(used) + 1]),
          stack |-> SubSeq(stack, 1, Len(stack) - 1),
          used |-> clampUsed(used) + 1]

\* popSnapshotBudgeted (useLocalRestore.ts:255-272): ret is what it returns,
\* stack and used are undoStackRef / undoUsedRef when it returns
popSnapshotBudgeted(stack, used, budget) ==
    IF Len(stack) <= 0 \/ computeUndoLeft(budget, clampUsed(used)) <= 0
    THEN [ret |-> None, stack |-> stack, used |-> used]
    ELSE LET packedB64 == stack[Len(stack)]
             nextStack == SubSeq(stack, 1, Len(stack) - 1)
             nextUsed == clampUsed(used) + 1
         IN  [ret |-> Some([packedB64 |-> packedB64, nextStack |-> nextStack,
                            nextUsed |-> nextUsed]),
              stack |-> nextStack, used |-> nextUsed]

\* a push that would keep every entry
pushSnapshotUncapped(stack, item) ==
    IF stack # <<>> /\ stack[Len(stack)] = item THEN stack
    ELSE Append(stack, item)

\* a push that would not look at the top of the stack
pushSnapshotNoDedupe(stack, item) ==
    LET next == Append(stack, item)
    IN  IF Len(next) > undoStackMax
        THEN SubSeq(next, Len(next) - undoStackMax + 1, Len(next))
        ELSE next

pushSnapshot(stack, item) ==
    IF stack # <<>> /\ stack[Len(stack)] = item THEN stack
    ELSE LET next == Append(stack, item)
         IN  IF Len(next) > undoStackMax
             THEN SubSeq(next, Len(next) - undoStackMax + 1, Len(next))
             ELSE next

\* getPrevPackedProgress of the tap handler: never the empty string
getPrevPackedProgress(p) ==
    IF p = <<>> THEN makeEmptyProgressBytes(RegionsCount) ELSE p

\* fills as the tap handler sees them: region i painted with colour p[i]
fillsOf(p) == IF p = <<>> THEN makeEmptyProgressBytes(RegionsCount) ELSE p

(* --------------------------- server (worker) --------------------------- *)
\* an upsert that overwrites the row whatever the revisions are
upsertLastWriterWins(row, lp, rev) == Some([lastPageId |-> lp, clientRev |-> rev])
\* an upsert whose WHERE clause would read excluded.client_rev >= client_rev
upsertOnGreaterOrEqual(row, lp, rev) ==
    IF row = None THEN Some([lastPageId |-> lp, clientRev |-> rev])
    ELSE IF rev >= row[1].clientRev THEN Some([lastPageId |-> lp, clientRev |-> rev])
    ELSE row

\* user_progress: the same statement keyed by (user_id, page_id); the row
\* read back after the write is returned (db/progress.ts:28-53)
upsertProgressIdempotent(latest, row) ==
    IF latest = None THEN Some(row)
    ELSE IF row.clientRev > latest[1].clientRev THEN Some(row)
    ELSE latest

\* INSERT ... ON CONFLICT DO UPDATE ... WHERE excluded.client_rev > client_rev
upsertStateIdempotent(row, lp, rev) ==
    IF row = None THEN Some([lastPageId |-> lp, clientRev |-> rev])
    ELSE IF rev > row[1].clientRev THEN Some([lastPageId |-> lp, clientRev |-> rev])
    ELSE row

(* --------------------------- outbox (outbox.ts) ------------------------ *)
enqueueMeState(lp, rev) == Some([lastPageId |-> lp, clientRev |-> Max(0, rev)])
\* the outbox module with a generic queue (part_023:35-184): the persisted
\* keys are pending_me_state_v1 (pending) and outbox_v1 (items); the atMs
\* time stamp of an item is left out
EmptyOutboxStore == [pending |-> None, items |-> <<>>]
outboxEnqueue(store, item) == [store EXCEPT !.items = Append(@, item)]
enqueueMeStateQueue(store, lp, rev) ==
    LET payload == [lastPageId |-> lp, clientRev |-> Max(0, rev)]
    IN  outboxEnqueue([store EXCEPT !.pending = Some(payload)],
                      [kind |-> "me_state", payload |-> payload])
clearPendingMeStateQueue(store) ==
    [pending |-> None,
     items |-> SelectSeq(store.items, LAMBDA it : it.kind # "me_state")]

\* no function has been called yet
NoCall == [op |-> "none"]

\* a push that does not look at the persisted slot: nothing is pending
loadPendingIgnoringSlot(slot) == None
loadPendingMeState(slot) == slot

(* ------------------------------- state --------------------------------- *)
VARIABLES
    \* React state of App and the refs that mirror it (App.tsx:116-192)
    clientRev, clientRevRef, progressB64, progressB64Ref, lastPageId, route,
    \* useUndoHistory refs (updated synchronously by apply)
    undoStackRef, undoUsedRef,
    \* useTapToFillHandlers commit lock
    isCommittingRef,
    \* useOutboxSync
    enabled, flushTimerRef, flushingRef, flushes,
    \* in-flight commit() calls, openPage's pending write, hardResetAllLocal
    commits, openPagePending, hardReset,
    \* useLocalRestore / useServerRestore flows
    localRestore, serverRestore, serverRestoreImpl,
    \* IndexedDB records
    kvSnapshot, kvLastPageId, kvOutbox,
    \* worker row of this user, and the network
    srvState, netUp, netFails,
    \* bookkeeping of the bounds: reloads and commit() calls so far
    reloads, nCommits,
    \* functions called on their own: the last call, and the outbox keys
    \* pending_me_state_v1 / outbox_v1 of the generic-queue outbox module
    call, outboxStore

memVars == <<clientRev, clientRevRef, progressB64, progressB64Ref, lastPageId,
             route, undoStackRef, undoUsedRef, isCommittingRef>>
syncVars == <<enabled, flushTimerRef, flushingRef, flushes>>
procVars == <<commits, openPagePending, hardReset, localRestore, serverRestore,
              serverRestoreImpl>>
kvVars == <<kvSnapshot, kvLastPageId, kvOutbox>>
envVars == <<srvState, netUp, netFails, reloads, nCommits>>
\* the last call of a pure function with its result, and the IndexedDB keys
\* of the outbox module that keeps a generic queue (part_023:81-82)
fnVars == <<call, outboxStore>>
vars == <<memVars, syncVars, procVars, kvVars, envVars, fnVars>>

Gallery == "gallery"

IdleCommit == [pc |-> "idle", kind |-> "none", snap |-> None, rev |-> 0]
\* outcome: how the last flushOnce() of the slot ended: "none" (never ran),
\* "skipped" (nothing pending), "cleared", "kept" (server behind, slot kept),
\* "caught" (putMeState threw, swallowed), "thrown" (rejected promise)
IdleFlush == [pc |-> "idle", pending |-> None, outcome |-> "none"]
Ended(outcome) == [pc |-> "idle", pending |-> None, outcome |-> outcome]
\* cancelled: the flag the effect's cleanup sets (part_013:53, 116-118)
IdleServerRestore == [pc |-> "idle", requestLastPageId |-> NullPage,
                      st |-> None, snap |-> None, cancelled |-> FALSE]

FreeCommit(i) == commits[i].pc = "idle" /\ \A j \in CommitIds : j < i => commits[j].pc # "idle"
FreeFlush(i) == flushes[i].pc = "idle" /\ \A j \in FlushIds : j < i => flushes[j].pc # "idle"

\* the state a fresh mount of App starts from (useState / useRef initial values)
MountMemory ==
    /\ clientRev = 0 /\ clientRevRef = 0
    /\ progressB64 = <<>> /\ progressB64Ref = <<>>
    /\ lastPageId = NullPage /\ route = Gallery
    /\ undoStackRef = <<>> /\ undoUsedRef = 0
    /\ isCommittingRef = FALSE
    /\ enabled = FALSE /\ flushTimerRef = FALSE /\ flushingRef = FALSE
    /\ flushes = [i \in FlushIds |-> IdleFlush]
    /\ commits = [i \in CommitIds |-> IdleCommit]
    /\ openPagePending = NullPage
    /\ hardReset = [pc |-> "idle", snap |-> None]
    /\ localRestore = [pc |-> "loading", lastPageId |-> NullPage,
                       snapshot |-> None]
    /\ serverRestore = IdleServerRestore

Init ==
    /\ MountMemory
    /\ serverRestoreImpl \in {"guarded", "simple"}
    /\ kvSnapshot = None /\ kvLastPageId = NullPage /\ kvOutbox = None
    /\ srvState = None
    /\ netUp = TRUE /\ netFails = 0
    /\ reloads = 0 /\ nCommits = 0
    /\ call = NoCall /\ outboxStore = EmptyOutboxStore

\* the scenarios in which server restore never completes fix the hook version
InitGuarded == Init /\ serverRestoreImpl = "guarded"

(* ------------------------- render / environment ------------------------ *)
\* useEffect(() => { clientRevRef.current = clientRev }, [clientRev]) and the
\* same for progressB64: the refs catch up with state after a render.
RenderEffects ==
    /\ clientRevRef # clientRev \/ progressB64Ref # progressB64
    /\ clientRevRef' = clientRev
    /\ progressB64Ref' = progressB64
    /\ UNCHANGED <<clientRev, progressB64, lastPageId, route, undoStackRef, undoUsedRef, isCommittingRef>>
    /\ UNCHANGED <<syncVars, procVars, kvVars, envVars, fnVars>>

\* the page is closed and opened again: memory and in-flight work are gone,
\* IndexedDB and the server keep their records
Reload ==
    /\ reloads < MaxReloads
    /\ reloads' = reloads + 1
    /\ clientRev' = 0 /\ clientRevRef' = 0
    /\ progressB64' = <<>> /\ progressB64Ref' = <<>>
    /\ lastPageId' = NullPage /\ route' = Gallery
    /\ undoStackRef' = <<>> /\ undoUsedRef' = 0
    /\ isCommittingRef' = FALSE
    /\ enabled' = FALSE /\ flushTimerRef' = FALSE /\ flushingRef' = FALSE
    /\ flushes' = [i \in FlushIds |-> IdleFlush]
    /\ commits' = [i \in CommitIds |-> IdleCommit]
    /\ openPagePending' = NullPage
    /\ hardReset' = [pc |-> "idle", snap |-> None]
    /\ localRestore' = [pc |-> "loading", lastPageId |-> kvLastPageId,
                        snapshot |-> kvSnapshot]
    /\ serverRestore' = IdleServerRestore
    /\ UNCHANGED <<serverRestoreImpl, kvVars, srvState, netUp, netFails, nCommits, fnVars>>

NetDown ==
    /\ netUp /\ netFails < MaxNetFails
    /\ netUp' = FALSE /\ netFails' = netFails + 1
    /\ UNCHANGED <<memVars, syncVars, procVars, kvVars, srvState, reloads, nCommits, fnVars>>

NetUp ==
    /\ ~netUp
    /\ netUp' = TRUE
    /\ UNCHANGED <<memVars, syncVars, procVars, kvVars, srvState, netFails, reloads, nCommits, fnVars>>

\* another device of the same user pushes its state (PUT /v1/me/state)
OtherDevicePut(lp, rev) ==
    /\ srvState' = upsertStateIdempotent(srvState, lp, rev)
    /\ srvState' # srvState
    /\ UNCHANGED <<memVars, syncVars, procVars, kvVars, netUp, netFails, reloads, nCommits, fnVars>>

(* ------------------------------ mutations ------------------------------ *)
\* commit(m), synchronous part (App.tsx:315-335): reads clientRevRef, sets the
\* React state and hands the built snapshot to savePageSnapshot.
commit(i, kind, nextProgressB64, nextUndoStackB64, nextUndoUsed) ==
    LET nextClientRev == clientRevRef + 1
        snap == savePageSnapshot(buildSnapshot(nextClientRev, nextProgressB64,
                                               nextUndoStackB64, nextUndoUsed))
    IN  /\ nCommits < MaxCommits
        /\ nCommits' = nCommits + 1
        /\ clientRev' = nextClientRev
        /\ progressB64' = nextProgressB64
        /\ commits' = [commits EXCEPT ![i] =
                         [pc |-> "persist", kind |-> kind, snap |-> Some(snap),
                          rev |-> nextClientRev]]

\* onPointerUp with a region hit (useTapToFillHandlers.ts:335-419)
Tap(i, r, color) ==
    /\ route # Gallery
    /\ ~isCommittingRef
    /\ FreeCommit(i)
    /\ LET prevFills == fillsOf(progressB64Ref)
           nextBytes == [prevFills EXCEPT ![r] = color]
           nextStack == pushSnapshot(undoStackRef, getPrevPackedProgress(progressB64Ref))
       IN  /\ prevFills[r] # color
           /\ isCommittingRef' = TRUE
           /\ undoStackRef' = nextStack
           /\ commit(i, "tap", nextBytes, nextStack, undoUsedRef)
    /\ UNCHANGED <<clientRevRef, progressB64Ref, lastPageId, route, undoUsedRef>>
    /\ UNCHANGED <<syncVars, openPagePending, hardReset, localRestore,
                   serverRestore, serverRestoreImpl, kvVars, srvState, netUp,
                   netFails, reloads, fnVars>>

\* onPointerUp leaving through one of its early returns while a commit is in
\* flight (the tap is dropped, misses every region or repaints a region with
\* its colour): the finally block releases the commit lock
\* (useTapToFillHandlers.ts:343-353, 384-392, 415-418)
TapIgnored ==
    /\ route # Gallery
    /\ isCommittingRef
    /\ isCommittingRef' = FALSE
    /\ UNCHANGED <<clientRev, clientRevRef, progressB64, progressB64Ref, lastPageId,
                   route, undoStackRef, undoUsedRef>>
    /\ UNCHANGED <<syncVars, procVars, kvVars, envVars, fnVars>>

\* an undo that leaves the refs of the history as they were until the next
\* render
UndoOneBudgetedStaleRefs(i) ==
    /\ route # Gallery
    /\ FreeCommit(i)
    /\ LET pop == popSnapshotBudgeted(undoStackRef, undoUsedRef,
                                      UNDO_BUDGET_PER_SESSION)
       IN  /\ pop.ret # None
           /\ commit(i, "undo", pop.ret[1].packedB64, pop.ret[1].nextStack,
                     pop.ret[1].nextUsed)
    /\ UNCHANGED <<clientRevRef, progressB64Ref, lastPageId, route,
                   undoStackRef, undoUsedRef, isCommittingRef>>
    /\ UNCHANGED <<syncVars, openPagePending, hardReset, localRestore,
                   serverRestore, serverRestoreImpl, kvVars, srvState, netUp,
                   netFails, reloads, fnVars>>

\* undoOneBudgeted (App.tsx:441-487) with popSnapshotBudgeted
UndoOneBudgeted(i) ==
    /\ route # Gallery
    /\ FreeCommit(i)
    /\ LET pop == popSnapshotBudgeted(undoStackRef, undoUsedRef,
                                      UNDO_BUDGET_PER_SESSION)
       IN  /\ pop.ret # None
           /\ undoStackRef' = pop.stack
           /\ undoUsedRef' = pop.used
           /\ commit(i, "undo", pop.ret[1].packedB64, pop.ret[1].nextStack,
                     pop.ret[1].nextUsed)
    /\ UNCHANGED <<clientRevRef, progressB64Ref, lastPageId, route, isCommittingRef>>
    /\ UNCHANGED <<syncVars, openPagePending, hardReset, localRestore,
                   serverRestore, serverRestoreImpl, kvVars, srvState, netUp,
                   netFails, reloads, fnVars>>

\* startOverPageConfirmed (App.tsx:415-439): resetKeepBudget, then commit("")
StartOverPageConfirmed(i) ==
    /\ route # Gallery
    /\ FreeCommit(i)
    /\ undoStackRef' = <<>>
    /\ commit(i, "startOver", <<>>, <<>>, undoUsedRef)
    /\ UNCHANGED <<clientRevRef, progressB64Ref, lastPageId, route, undoUsedRef, isCommittingRef>>
    /\ UNCHANGED <<syncVars, openPagePending, hardReset, localRestore,
                   serverRestore, serverRestoreImpl, kvVars, srvState, netUp,
                   netFails, reloads, fnVars>>

\* a commit that moves on without having written its snapshot
CommitPersistedNoWrite(i) ==
    /\ commits[i].pc = "persist"
    /\ lastPageId' = DEMO_PAGE_ID
    /\ commits' = [commits EXCEPT ![i].pc = "saveLast"]
    /\ UNCHANGED <<clientRev, clientRevRef, progressB64, progressB64Ref, route,
                   undoStackRef, undoUsedRef, isCommittingRef>>
    /\ UNCHANGED <<syncVars, openPagePending, hardReset, localRestore,
                   serverRestore, serverRestoreImpl, kvVars, envVars, fnVars>>

\* commit: await persistSnapshotNow resolved (App.tsx:328-338)
CommitPersisted(i) ==
    /\ commits[i].pc = "persist"
    /\ kvSnapshot' = commits[i].snap
    /\ lastPageId' = DEMO_PAGE_ID
    /\ commits' = [commits EXCEPT ![i].pc = "saveLast"]
    /\ UNCHANGED <<clientRev, clientRevRef, progressB64, progressB64Ref, route,
                   undoStackRef, undoUsedRef, isCommittingRef>>
    /\ UNCHANGED <<syncVars, openPagePending, hardReset, localRestore,
                   serverRestore, serverRestoreImpl, kvLastPageId, kvOutbox, envVars, fnVars>>

\* commit: await saveLastPageId resolved (App.tsx:338-340)
CommitSavedLast(i) ==
    /\ commits[i].pc = "saveLast"
    /\ kvLastPageId' = DEMO_PAGE_ID
    /\ commits' = [commits EXCEPT ![i].pc = "enqueue"]
    /\ UNCHANGED <<memVars, syncVars, openPagePending, hardReset, localRestore,
                   serverRestore, serverRestoreImpl, kvSnapshot, kvOutbox, envVars, fnVars>>

\* scheduleFlush (part_014:62-75): clears the pending timer and sets a new one
scheduleFlush == IF enabled THEN TRUE ELSE flushTimerRef

\* commit: enqueueAndSchedule's await enqueueMeState resolved, scheduleFlush
\* runs, commit returns; a tap's finally releases the commit lock
CommitEnqueued(i) ==
    /\ commits[i].pc = "enqueue"
    /\ kvOutbox' = enqueueMeState(DEMO_PAGE_ID, commits[i].rev)
    /\ flushTimerRef' = scheduleFlush
    /\ commits' = [commits EXCEPT ![i] = IdleCommit]
    /\ isCommittingRef' = IF commits[i].kind = "tap" THEN FALSE ELSE isCommittingRef
    /\ UNCHANGED <<clientRev, clientRevRef, progressB64, progressB64Ref, lastPageId,
                   route, undoStackRef, undoUsedRef>>
    /\ UNCHANGED <<enabled, flushingRef, flushes, openPagePending, hardReset,
                   localRestore, serverRestore, serverRestoreImpl, kvSnapshot,
                   kvLastPageId, envVars, fnVars>>

\* openPage (App.tsx:371-380)
OpenPage(pageId) ==
    /\ route = Gallery
    /\ openPagePending = NullPage
    /\ route' = pageId
    /\ lastPageId' = pageId
    /\ openPagePending' = pageId
    /\ UNCHANGED <<clientRev, clientRevRef, progressB64, progressB64Ref, undoStackRef, undoUsedRef, isCommittingRef>>
    /\ UNCHANGED <<syncVars, commits, hardReset, localRestore, serverRestore,
                   serverRestoreImpl, kvVars, envVars, fnVars>>

OpenPageSaved ==
    /\ openPagePending # NullPage
    /\ kvLastPageId' = openPagePending
    /\ openPagePending' = NullPage
    /\ UNCHANGED <<memVars, syncVars, commits, hardReset, localRestore,
                   serverRestore, serverRestoreImpl, kvSnapshot, kvOutbox, envVars, fnVars>>

\* goGallery (App.tsx:367-369)
goGallery ==
    /\ route # Gallery
    /\ route' = Gallery
    /\ UNCHANGED <<clientRev, clientRevRef, progressB64, progressB64Ref, lastPageId,
                   undoStackRef, undoUsedRef, isCommittingRef>>
    /\ UNCHANGED <<syncVars, procVars, kvVars, envVars, fnVars>>

\* hardResetAllLocal (App.tsx:382-413)
HardResetStart ==
    /\ route = Gallery
    /\ hardReset.pc = "idle"
    /\ hardReset' = [pc |-> "delete", snap |-> None]
    /\ UNCHANGED <<memVars, syncVars, commits, openPagePending, localRestore,
                   serverRestore, serverRestoreImpl, kvVars, envVars, fnVars>>

HardResetDeleted ==
    /\ hardReset.pc = "delete"
    /\ kvSnapshot' = None
    /\ clientRev' = 0
    /\ lastPageId' = NullPage
    /\ progressB64' = <<>>
    /\ undoStackRef' = <<>> /\ undoUsedRef' = 0
    /\ route' = Gallery
    /\ hardReset' = [pc |-> "persist",
                     snap |-> Some(savePageSnapshot(buildSnapshot(0, <<>>, <<>>, 0)))]
    /\ UNCHANGED <<clientRevRef, progressB64Ref, isCommittingRef>>
    /\ UNCHANGED <<syncVars, commits, openPagePending, localRestore, serverRestore,
                   serverRestoreImpl, kvLastPageId, kvOutbox, envVars, fnVars>>

HardResetPersisted ==
    /\ hardReset.pc = "persist"
    /\ kvSnapshot' = hardReset.snap
    /\ hardReset' = [pc |-> "idle", snap |-> None]
    /\ UNCHANGED <<memVars, syncVars, commits, openPagePending, localRestore,
                   serverRestore, serverRestoreImpl, kvLastPageId, kvOutbox, envVars, fnVars>>

(* ---------------------------- local restore ---------------------------- *)
\* useLocalRestore run(): the two loads resolved, the result is applied
\* (useLocalRestore.ts:45-101). The loads are issued when the app mounts,
\* ahead of every write of the session, so they return what the store held
\* at the mount: localRestore carries it until it is applied.
LocalRestoreApply ==
    /\ localRestore.pc = "loading"
    /\ localRestore' = [pc |-> "done", lastPageId |-> NullPage,
                        snapshot |-> None]
    /\ LET normalizedLastPageId == localRestore.lastPageId
           snapshot == loadPageSnapshot(localRestore.snapshot)
       IN  /\ lastPageId' = normalizedLastPageId
           /\ route' = IF normalizedLastPageId # NullPage
                       THEN normalizedLastPageId ELSE route
           /\ IF snapshot = None
              THEN UNCHANGED <<clientRev, undoStackRef, undoUsedRef, progressB64>>
              ELSE /\ clientRev' = snapshot[1].clientRev
                   /\ undoStackRef' = Take(snapshot[1].undoStackB64, undoStackMax)
                   /\ undoUsedRef' = snapshot[1].undoBudgetUsed
                   /\ progressB64' =
                          IF snapshot[1].progressB64 # <<>> /\ RegionsCount > 0
                             /\ PaletteLen > 0
                          THEN snapshot[1].progressB64 ELSE <<>>
    /\ UNCHANGED <<clientRevRef, progressB64Ref, isCommittingRef>>
    /\ UNCHANGED <<syncVars, commits, openPagePending, hardReset, serverRestore,
                   serverRestoreImpl, kvVars, envVars, fnVars>>

(* ---------------------------- server restore --------------------------- *)
\* the revision the hook moves the local clock to when the server is ahead:
\* localRev + 1 in the guarded hook (part_013:100-103), the server's revision
\* in the simple hook (part_013:168-171)
nextRevWhenServerAhead(impl, localRev, serverRev) ==
    IF impl = "guarded" THEN localRev + 1 ELSE serverRev

\* reconciliation (part_013:91-105 / 168-172) with persistWhenServerAhead
\* (App.tsx:261-270), which reads the refs when it is called
Reconcile(st) ==
    LET localRev == clientRevRef
        serverRev == Max(0, st.clientRev)
    IN  IF serverRev > localRev
        THEN LET next == nextRevWhenServerAhead(serverRestoreImpl, localRev, serverRev)
             IN  /\ clientRev' = next
                 /\ serverRestore' = [serverRestore EXCEPT
                        !.pc = "persist", !.st = Some(st),
                        !.snap = Some(savePageSnapshot(buildSnapshot(
                            next, progressB64Ref, undoStackRef, undoUsedRef)))]
        ELSE /\ clientRev' = clientRev
             /\ serverRestore' = [serverRestore EXCEPT !.pc = "done", !.st = Some(st)]

\* getMeState resolved (part_013:66-105); a run whose cleanup already ran
\* returns at "if (cancelled) return" (part_013:67)
ServerRestoreFetched ==
    /\ serverRestore.pc = "fetch"
    /\ netUp
    /\ IF srvState = None \/ serverRestore.cancelled
       THEN /\ serverRestore' = [serverRestore EXCEPT !.pc = "done"]
            /\ UNCHANGED <<clientRev, lastPageId, route>>
       ELSE LET st == srvState[1]
                normalizedServerPageId == st.lastPageId
            IN  IF /\ serverRestore.requestLastPageId = NullPage
                   /\ normalizedServerPageId # NullPage
                THEN /\ lastPageId' = normalizedServerPageId
                     /\ route' = normalizedServerPageId
                     /\ serverRestore' = [serverRestore EXCEPT
                            !.pc = "saveLast", !.st = Some(st)]
                     /\ UNCHANGED clientRev
                ELSE /\ Reconcile(st)
                     /\ UNCHANGED <<lastPageId, route>>
    /\ UNCHANGED <<clientRevRef, progressB64, progressB64Ref, undoStackRef,
                   undoUsedRef, isCommittingRef>>
    /\ UNCHANGED <<syncVars, commits, openPagePending, hardReset, localRestore,
                   serverRestoreImpl, kvVars, envVars, fnVars>>

\* await saveLastPageId(normalizedServerPageId) resolved, reconciliation runs
ServerRestoreSavedLast ==
    /\ serverRestore.pc = "saveLast"
    /\ kvLastPageId' = serverRestore.st[1].lastPageId
    /\ Reconcile(serverRestore.st[1])
    /\ UNCHANGED <<clientRevRef, progressB64, progressB64Ref, lastPageId, route,
                   undoStackRef, undoUsedRef, isCommittingRef>>
    /\ UNCHANGED <<syncVars, commits, openPagePending, hardReset, localRestore,
                   serverRestoreImpl, kvSnapshot, kvOutbox, envVars, fnVars>>

\* await persistWhenServerAhead resolved
ServerRestorePersisted ==
    /\ serverRestore.pc = "persist"
    /\ kvSnapshot' = serverRestore.snap
    /\ serverRestore' = [serverRestore EXCEPT !.pc = "done"]
    /\ UNCHANGED <<memVars, syncVars, commits, openPagePending, hardReset,
                   localRestore, serverRestoreImpl, kvLastPageId, kvOutbox, envVars, fnVars>>

\* getMeState rejected: caught and ignored (part_013:108-110)
ServerRestoreFetchFail ==
    /\ serverRestore.pc = "fetch"
    /\ ~netUp
    /\ serverRestore' = [serverRestore EXCEPT !.pc = "done"]
    /\ UNCHANGED <<memVars, syncVars, commits, openPagePending, hardReset,
                   localRestore, serverRestoreImpl, kvVars, envVars, fnVars>>

(* ------------------------------ outbox sync ---------------------------- *)
\* flushOnce up to its first await (part_014:27-31)
flushOnce(i) ==
    IF flushingRef THEN UNCHANGED flushes
    ELSE flushes' = [flushes EXCEPT ![i] = [pc |-> "load", pending |-> None,
                                             outcome |-> "none"]]

\* canCallServer becomes true: useOutboxSync's effect flushes opportunistically
\* (part_014:77-87) and useServerRestore's effect starts its run (part_013:52-63)
Enable ==
    /\ ~enabled
    /\ serverRestore.pc \in {"idle", "done"}
    /\ enabled' = TRUE
    /\ \E i \in FlushIds : FreeFlush(i) /\ flushOnce(i)
    /\ serverRestore' = [IdleServerRestore EXCEPT
           !.pc = "fetch", !.requestLastPageId = lastPageId]
    /\ UNCHANGED <<memVars, flushTimerRef, flushingRef, commits, openPagePending,
                   hardReset, localRestore, serverRestoreImpl, kvVars, envVars, fnVars>>

\* canCallServer becomes false on a later render (hasTelegramInitData() is
\* evaluated on every render, App.tsx:198): React runs the cleanups of the
\* effects that depend on it, clearFlushTimer() (part_014:83-85) and
\* cancelled = true (part_013:116-118); flows already in flight go on.
Disable ==
    /\ enabled
    /\ enabled' = FALSE
    /\ flushTimerRef' = FALSE
    /\ serverRestore' = [serverRestore EXCEPT !.cancelled = TRUE]
    /\ UNCHANGED <<memVars, flushingRef, flushes, commits, openPagePending,
                   hardReset, localRestore, serverRestoreImpl, kvVars, envVars, fnVars>>

\* the debounce timer fires (part_014:69-72)
TimerFire ==
    /\ flushTimerRef
    /\ flushTimerRef' = FALSE
    /\ \E i \in FlushIds : FreeFlush(i) /\ flushOnce(i)
    /\ UNCHANGED <<memVars, enabled, flushingRef, procVars, kvVars, envVars, fnVars>>

\* "Flush Outbox Now": scheduleFlush(0) (App.tsx:712)
FlushNow ==
    /\ route # Gallery
    /\ enabled
    /\ ~flushTimerRef
    /\ flushTimerRef' = scheduleFlush
    /\ UNCHANGED <<memVars, enabled, flushingRef, flushes, procVars, kvVars, envVars, fnVars>>

\* flushOnce: await loadPendingMeState resolved (part_014:31-36)
FlushLoaded(i) ==
    /\ flushes[i].pc = "load"
    /\ LET pending == loadPendingMeState(kvOutbox)
       IN  IF pending = None
           THEN /\ flushes' = [flushes EXCEPT ![i] = Ended("skipped")]
                /\ UNCHANGED flushingRef
           ELSE /\ flushingRef' = TRUE
                /\ flushes' = [flushes EXCEPT ![i] = [pc |-> "put", pending |-> pending,
                                                     outcome |-> "none"]]
    /\ UNCHANGED <<memVars, enabled, flushTimerRef, procVars, kvVars, envVars, fnVars>>

\* a flushOnce that would clear only when the server is strictly ahead
FlushPutOkStrict(i) ==
    /\ flushes[i].pc = "put"
    /\ netUp
    /\ LET pending == flushes[i].pending[1]
           res == upsertStateIdempotent(srvState, pending.lastPageId, pending.clientRev)
       IN  /\ srvState' = res
           /\ IF res # None /\ res[1].clientRev > pending.clientRev
              THEN /\ flushes' = [flushes EXCEPT ![i].pc = "clear"]
                   /\ UNCHANGED flushingRef
              ELSE /\ flushes' = [flushes EXCEPT ![i] = Ended("kept")]
                   /\ flushingRef' = FALSE
    /\ UNCHANGED <<memVars, enabled, flushTimerRef, procVars, kvVars, netUp,
                   netFails, reloads, nCommits, fnVars>>

\* flushOnce: putMeState resolved (part_014:36-46, 49-51)
FlushPutOk(i) ==
    /\ flushes[i].pc = "put"
    /\ netUp
    /\ LET pending == flushes[i].pending[1]
           res == upsertStateIdempotent(srvState, pending.lastPageId, pending.clientRev)
       IN  /\ srvState' = res
           /\ IF res # None /\ res[1].clientRev >= pending.clientRev
              THEN /\ flushes' = [flushes EXCEPT ![i].pc = "clear"]
                   /\ UNCHANGED flushingRef
              ELSE /\ flushes' = [flushes EXCEPT ![i] = Ended("kept")]
                   /\ flushingRef' = FALSE
    /\ UNCHANGED <<clientRev, clientRevRef, progressB64, progressB64Ref, lastPageId,
                   route, undoStackRef, undoUsedRef, isCommittingRef>>
    /\ UNCHANGED <<enabled, flushTimerRef, procVars, kvVars, netUp, netFails, reloads, nCommits, fnVars>>

\* a flushOnce whose catch block would drop the pending entry
FlushPutFailClearing(i) ==
    /\ flushes[i].pc = "put"
    /\ ~netUp
    /\ kvOutbox' = None
    /\ flushes' = [flushes EXCEPT ![i] = Ended("caught")]
    /\ flushingRef' = FALSE
    /\ UNCHANGED <<memVars, enabled, flushTimerRef, procVars, kvSnapshot,
                   kvLastPageId, envVars, fnVars>>

\* flushOnce: putMeState rejected; the request may or may not have reached
\* the server before the failure (part_014:47-51)
FlushPutFail(i) ==
    /\ flushes[i].pc = "put"
    /\ ~netUp
    /\ \E applied \in BOOLEAN :
          srvState' = IF applied
                      THEN upsertStateIdempotent(srvState,
                               flushes[i].pending[1].lastPageId,
                               flushes[i].pending[1].clientRev)
                      ELSE srvState
    /\ flushes' = [flushes EXCEPT ![i] = Ended("caught")]
    /\ flushingRef' = FALSE
    /\ UNCHANGED <<memVars, enabled, flushTimerRef, procVars, kvVars, netUp,
                   netFails, reloads, nCommits, fnVars>>

\* flushOnce: await clearPendingMeState resolved (part_014:45, 49-51;
\* part_023:222-224)
FlushCleared(i) ==
    /\ flushes[i].pc = "clear"
    /\ kvOutbox' = None
    /\ flushes' = [flushes EXCEPT ![i] = Ended("cleared")]
    /\ flushingRef' = FALSE
    /\ UNCHANGED <<memVars, enabled, flushTimerRef, procVars, kvSnapshot,
                   kvLastPageId, envVars, fnVars>>

(* ----------------------------- specification --------------------------- *)
Next ==
    \/ RenderEffects
    \/ Reload
    \/ NetDown
    \/ NetUp
    \/ \E lp \in Pages, rev \in 1..MaxServerRev : OtherDevicePut(lp, rev)
    \/ \E i \in CommitIds, r \in 1..RegionsCount, c \in 0..(PaletteLen - 1) : Tap(i, r, c)
    \/ TapIgnored
    \/ \E i \in CommitIds : UndoOneBudgeted(i)
    \/ \E i \in CommitIds : StartOverPageConfirmed(i)
    \/ \E i \in CommitIds : CommitPersisted(i)
    \/ \E i \in CommitIds : CommitSavedLast(i)
    \/ \E i \in CommitIds : CommitEnqueued(i)
    \/ \E p \in Pages : OpenPage(p)
    \/ OpenPageSaved
    \/ goGallery
    \/ HardResetStart
    \/ HardResetDeleted
    \/ HardResetPersisted
    \/ LocalRestoreApply
    \/ Enable
    \/ Disable
    \/ ServerRestoreFetched
    \/ ServerRestoreSavedLast
    \/ ServerRestorePersisted
    \/ ServerRestoreFetchFail
    \/ TimerFire
    \/ FlushNow
    \/ \E i \in FlushIds : FlushLoaded(i)
    \/ \E i \in FlushIds : FlushPutOk(i)
    \/ \E i \in FlushIds : FlushPutFail(i)
    \/ \E i \in FlushIds : FlushCleared(i)

Spec == Init /\ [][Next]_vars

\* the steps of an in-flight commit(), openPage and the render
Progress ==
    \/ RenderEffects
    \/ \E i \in CommitIds : CommitPersisted(i)
    \/ \E i \in CommitIds : CommitSavedLast(i)
    \/ \E i \in CommitIds : CommitEnqueued(i)
    \/ OpenPageSaved
    \/ LocalRestoreApply

\* Push scenario: one session, mutations made one after the other and the
\* outbox push over a network that may fail; the boot fetch never answers.
NextPush ==
    \/ Progress
    \/ NetDown
    \/ NetUp
    \/ OpenPage(DEMO_PAGE_ID)
    \/ \E r \in 1..RegionsCount, c \in 0..(PaletteLen - 1) : Tap(1, r, c)
    \/ StartOverPageConfirmed(1)
    \/ Enable
    \/ TimerFire
    \/ FlushNow
    \/ \E i \in FlushIds : FlushLoaded(i)
    \/ \E i \in FlushIds : FlushPutOk(i)
    \/ \E i \in FlushIds : FlushPutFail(i)
    \/ \E i \in FlushIds : FlushCleared(i)

SpecPush == InitGuarded /\ [][NextPush]_vars

\* Boot scenario: sessions separated by a reload, local and server restore
\* racing with taps made one after the other, another device (on another
\* page) writing to the server; no push.
NextBoot ==
    \/ Progress
    \/ Reload
    \/ NetDown
    \/ NetUp
    \/ \E rev \in 1..MaxServerRev : OtherDevicePut(OTHER_PAGE_ID, rev)
    \/ OpenPage(DEMO_PAGE_ID)
    \/ \E r \in 1..RegionsCount, c \in 0..(PaletteLen - 1) : Tap(1, r, c)
    \/ Enable
    \/ ServerRestoreFetched
    \/ ServerRestoreSavedLast
    \/ ServerRestorePersisted
    \/ ServerRestoreFetchFail

SpecBoot == Init /\ [][NextBoot]_vars

\* Clock scenario: every local operation that touches clientRev, without
\* the network.
NextClock ==
    \/ Progress
    \/ Reload
    \/ OpenPage(DEMO_PAGE_ID)
    \/ \E i \in CommitIds, r \in 1..RegionsCount, c \in 0..(PaletteLen - 1) : Tap(i, r, c)
    \/ TapIgnored
    \/ \E i \in CommitIds : UndoOneBudgeted(i)
    \/ \E i \in CommitIds : StartOverPageConfirmed(i)
    \/ goGallery
    \/ HardResetStart
    \/ HardResetDeleted
    \/ HardResetPersisted

SpecClock == InitGuarded /\ [][NextClock]_vars

\* Failure scenario: the push scenario with a user who only paints the first
\* region (no start-over, no flush-now).
NextRetry ==
    \/ Progress
    \/ NetDown
    \/ NetUp
    \/ OpenPage(DEMO_PAGE_ID)
    \/ \E c \in 0..(PaletteLen - 1) : Tap(1, 1, c)
    \/ Enable
    \/ TimerFire
    \/ \E i \in FlushIds : FlushLoaded(i)
    \/ \E i \in FlushIds : FlushPutOk(i)
    \/ \E i \in FlushIds : FlushPutFail(i)
    \/ \E i \in FlushIds : FlushCleared(i)

SpecFail == InitGuarded /\ [][NextRetry]_vars

\* The failure scenario under fairness of everything the runtime schedules by
\* itself: renders, storage completions, the boot effects, the debounce
\* timer, network replies and the network coming back.  The user and network
\* failures stay unconstrained.
SpecRetry ==
    /\ InitGuarded
    /\ [][NextRetry]_vars
    /\ WF_vars(Progress)
    /\ WF_vars(NetUp)
    /\ WF_vars(Enable)
    /\ WF_vars(TimerFire)
    /\ \A i \in FlushIds : WF_vars(FlushLoaded(i))
    /\ \A i \in FlushIds : WF_vars(FlushPutOk(i))
    /\ \A i \in FlushIds : WF_vars(FlushPutFail(i))
    /\ \A i \in FlushIds : WF_vars(FlushCleared(i))

(* ------------------------------- claims -------------------------------- *)
\* C1: whenever a push clears the outbox slot, the server's stored clientRev
\* is >= the clientRev of the entry that is in the slot at that moment, so
\* no newer queued intent is removed by the acknowledgement of an older one.
C1_ClearedEntryIsAcknowledged ==
    [][\A i \in FlushIds :
          (flushes[i].pc = "clear" /\ flushes'[i].outcome = "cleared"
           /\ kvOutbox # None)
          => (srvState # None /\ srvState[1].clientRev >= kvOutbox[1].clientRev)]_vars

\* C2: at most one PUT issued by flushOnce is in flight at any time.
C2_AtMostOnePushInFlight ==
    Cardinality({i \in FlushIds : flushes[i].pc = "put"}) <= 1

\* C7: if the slot holds a pending intent and a push has failed, then the
\* slot is eventually cleared (hence a push of the intent is attempted again)
\* without any further mutation being required.
PushFailedWithPending ==
    /\ kvOutbox # None
    /\ \E i \in FlushIds : flushes[i].outcome = "caught"
C7_FailedPushIsRetried == PushFailedWithPending ~> (kvOutbox = None)

\* C8: when a push fails (the reply to an in-flight PUT is handled while the
\* network is down), that step leaves the outbox slot exactly as it was, the
\* failure is swallowed (flushOnce ends normally, nothing is thrown to the
\* caller) and the in-flight flag is released.
C8_FailedPushLeavesSlot ==
    [][\A i \in FlushIds :
          (flushes[i].pc = "put" /\ ~netUp /\ flushes'[i].pc # "put")
          => /\ kvOutbox' = kvOutbox
             /\ flushes'[i].outcome = "caught"
             /\ flushingRef' = FALSE]_vars

\* a push has failed and its entry is still queued, the flag released
C8_Witness ==
    /\ \E i \in FlushIds :
          flushes[i].outcome = "caught" /\ kvOutbox # None
    /\ ~flushingRef

\* C3: the reconciling snapshot write of server restore leaves the persisted
\* progress and undo stack of the page equal to what was stored before it.
C3_ReconcileKeepsStoredProgress ==
    [][(serverRestore.pc = "persist" /\ serverRestore'.pc = "done"
        /\ kvSnapshot # None)
       => /\ kvSnapshot' # None
          /\ kvSnapshot'[1].progressB64 = kvSnapshot[1].progressB64
          /\ kvSnapshot'[1].undoStackB64 = kvSnapshot[1].undoStackB64]_vars

\* C4: each mutation (a commit() call) increases the local clientRev by
\* exactly 1.
C4_EachMutationAddsOne ==
    [][nCommits' = nCommits + 1 => clientRev' = clientRev + 1]_vars

\* C5: no two mutations are persisted and enqueued with the same clientRev:
\* commits in flight at the same time carry distinct revisions.
C5_OverlappingCommitsDistinctRevs ==
    \A i, j \in CommitIds :
        (i # j /\ commits[i].pc # "idle" /\ commits[j].pc # "idle")
        => commits[i].rev # commits[j].rev

\* C6: within a page session (no reload) the local clientRev never decreases.
C6_ClientRevNeverDecreases ==
    [][reloads' = reloads => clientRev' >= clientRev]_vars

\* C9: when the fetched server clientRev is greater than the local one, the
\* reconciliation sets the local clientRev to the server's clientRev and
\* persists a snapshot carrying that revision.
C9_ServerAheadAdoptsServerRev ==
    [][(serverRestore.pc \in {"fetch", "saveLast"} /\ serverRestore'.pc = "persist")
       => /\ clientRev' = serverRestore'.st[1].clientRev
          /\ serverRestore'.snap[1].clientRev = serverRestore'.st[1].clientRev]_vars

\* C10: when the fetched server clientRev is <= the local clientRev, server
\* restore changes neither lastPageId, the route, clientRev nor any
\* persisted local record.
ServerNotAhead(st) ==
    st.clientRev <= clientRev /\ st.clientRev <= clientRevRef
C10_ServerNotAheadNoAction ==
    [][/\ (serverRestore.pc = "fetch"
           /\ serverRestore'.pc \in {"saveLast", "persist", "done"}
           /\ srvState # None /\ ServerNotAhead(srvState[1]))
          => UNCHANGED <<lastPageId, route, clientRev, kvVars>>
       /\ (serverRestore.pc = "saveLast"
           /\ serverRestore'.pc \in {"persist", "done"}
           /\ ServerNotAhead(serverRestore.st[1]))
          => UNCHANGED <<lastPageId, route, clientRev, kvVars>>]_vars

(* --------------------- server restore: navigation ---------------------- *)
\* C11: when the getMeState result is applied while the local lastPageId is
\* already set (the user opened a page after the fetch started), the active
\* page and route stay as they are and no saveLastPageId of the server's page
\* is started.
C11_LocalPageChoiceSurvivesFetch ==
    [][(/\ serverRestore.pc = "fetch"
        /\ serverRestore'.pc # "fetch"
        /\ reloads' = reloads
        /\ lastPageId # NullPage)
       => (/\ lastPageId' = lastPageId
           /\ route' = route
           /\ serverRestore'.pc # "saveLast")]_vars

(* ------------------------ cancelled restore flows ---------------------- *)
\* server restore with canCallServer switching on and off while the flow is
\* in flight
NextCancel ==
    \/ Progress
    \/ \E rev \in 1..MaxServerRev : OtherDevicePut(OTHER_PAGE_ID, rev)
    \/ OpenPage(DEMO_PAGE_ID)
    \/ \E c \in 0..(PaletteLen - 1) : Tap(1, 1, c)
    \/ NetDown
    \/ NetUp
    \/ Enable
    \/ Disable
    \/ ServerRestoreFetched
    \/ ServerRestoreSavedLast
    \/ ServerRestorePersisted
    \/ ServerRestoreFetchFail

SpecCancel == Init /\ [][NextCancel]_vars

\* C12: a step of the server-restore flow taken after its cancelled flag was
\* set changes neither clientRev, lastPageId nor the route and starts no
\* further persistence write (the flow ends).
C12_CancelledFlowAppliesNothing ==
    [][(/\ serverRestore.cancelled
        /\ serverRestore'.cancelled
        /\ serverRestore'.pc # serverRestore.pc)
       => (/\ clientRev' = clientRev
           /\ lastPageId' = lastPageId
           /\ route' = route
           /\ serverRestore'.pc = "done")]_vars

(* --------------------------- order of a commit ------------------------- *)
\* taps and start-overs, a start-over overlapping a commit in flight
\* included, with the push running over a network that answers
NextOrder ==
    \/ Progress
    \/ OpenPage(DEMO_PAGE_ID)
    \/ Tap(1, 1, 0)
    \/ \E i \in CommitIds : StartOverPageConfirmed(i)
    \/ Enable
    \/ TimerFire
    \/ \E j \in FlushIds : FlushLoaded(j)
    \/ \E j \in FlushIds : FlushPutOk(j)
    \/ \E j \in FlushIds : FlushCleared(j)

SpecOrder == InitGuarded /\ [][NextOrder]_vars

NextReplay ==
    \/ Progress
    \/ Reload
    \/ NetDown
    \/ NetUp
    \/ OpenPage(DEMO_PAGE_ID)
    \/ Tap(1, 1, 0)
    \/ Enable
    \/ TimerFire
    \/ \E j \in FlushIds : FlushLoaded(j)
    \/ \E j \in FlushIds : FlushPutOk(j)
    \/ \E j \in FlushIds : FlushPutFail(j)
    \/ \E j \in FlushIds : FlushCleared(j)

SpecReplay ==
    /\ InitGuarded
    /\ [][NextReplay]_vars
    /\ WF_vars(Progress)
    /\ WF_vars(NetUp)
    /\ WF_vars(Enable)
    /\ WF_vars(TimerFire)
    /\ \A j \in FlushIds : WF_vars(FlushLoaded(j))
    /\ \A j \in FlushIds : WF_vars(FlushPutOk(j))
    /\ \A j \in FlushIds : WF_vars(FlushPutFail(j))
    /\ \A j \in FlushIds : WF_vars(FlushCleared(j))

\* C14: when the app comes up after a reload with an entry in the outbox
\* slot, a putMeState carrying what the slot holds is sent, whether or not
\* any mutation is made after the reload.
ReloadedWithPending == reloads >= 1 /\ ~enabled /\ kvOutbox # None
C14_PendingIsPushedAfterReload ==
    ReloadedWithPending ~> (\E j \in FlushIds : flushes[j].pc = "put")

\* after a reload, with nothing restored or mutated yet (clientRev is still
\* 0), the push of the entry queued before the reload is in flight
C14_Witness ==
    /\ reloads >= 1
    /\ clientRev = 0 /\ lastPageId = NullPage /\ route = Gallery
    /\ \A i \in CommitIds : commits[i].pc = "idle"
    /\ \E j \in FlushIds : flushes[j].pc = "put" /\ flushes[j].pending = kvOutbox

(* ------------------------------- debounce ------------------------------ *)
\* C15: when the debounce timer set by the last mutation of a burst fires
\* with an entry in the outbox, a push of that entry is under way after the
\* firing: a flushOnce is about to read the slot, or a putMeState carrying
\* the slot's entry is in flight or has just been answered.
C15_TimerFirePushesSlot ==
    [][(/\ flushTimerRef /\ ~flushTimerRef'
        /\ enabled /\ enabled'
        /\ reloads' = reloads
        /\ kvOutbox # None)
       => \E j \in FlushIds :
              \/ flushes'[j].pc = "load"
              \/ /\ flushes'[j].pc \in {"put", "clear"}
                 /\ flushes'[j].pending = kvOutbox']_vars

(* ------------------------ functions called alone ----------------------- *)
\* enqueueMeState / clearPendingMeState of the generic-queue outbox, called
\* one after the other
EnqueueMeStateQueue(lp, rev) ==
    /\ Len(outboxStore.items) < MaxEnqueues
    /\ outboxStore' = enqueueMeStateQueue(outboxStore, lp, rev)
    /\ UNCHANGED <<memVars, syncVars, procVars, kvVars, envVars, call>>

ClearPendingMeStateQueue ==
    /\ outboxStore # EmptyOutboxStore
    /\ outboxStore' = clearPendingMeStateQueue(outboxStore)
    /\ UNCHANGED <<memVars, syncVars, procVars, kvVars, envVars, call>>

NextOutbox ==
    \/ \E lp \in Pages \cup {NullPage}, rev \in 0..MaxServerRev :
           EnqueueMeStateQueue(lp, rev)
    \/ ClearPendingMeStateQueue

SpecOutbox == InitGuarded /\ [][NextOutbox]_vars

\* C16: after any sequence of enqueueMeState calls the persisted outbox keys
\* hold one entry, the last one enqueued: the pending key holds it and the
\* queue holds nothing but it.
C16_OutboxIsSingleSlot ==
    outboxStore.pending # None =>
        /\ Len(outboxStore.items) <= 1
        /\ \A k \in 1..Len(outboxStore.items) :
               outboxStore.items[k].payload = outboxStore.pending[1]

(* ------------------------- the worker on its own ----------------------- *)
\* PUT /v1/me/state with a well-formed body (api/v1/state.ts:38-65): the
\* upsert runs and the row read back is the response.  call keeps the
\* request, the row before it, the response, the request before this one
\* and the set of requests received earlier.
PutMeState(lp, rev) ==
    LET saved == upsertStateIdempotent(srvState, lp, rev)
        wasPut == call.op = "putMeState"
    IN  /\ srvState' = saved
        /\ call' = [op |-> "putMeState", before |-> srvState,
                    lp |-> lp, rev |-> rev, res |-> saved,
                    prev |-> IF wasPut
                             THEN Some([lp |-> call.lp, rev |-> call.rev,
                                        applied |-> call.res # call.before])
                             ELSE None,
                    seen |-> IF wasPut
                             THEN call.seen \cup {<<call.lp, call.rev>>}
                             ELSE {}]
        /\ UNCHANGED <<memVars, syncVars, procVars, kvVars, netUp, netFails,
                       reloads, nCommits, outboxStore>>

\* upsertProgressIdempotent called with a stored row (or none) and a request
ProgressData == {"AA==", "AQ=="}
ProgressRows == [clientRev : 0..MaxServerRev, dataB64 : ProgressData]
UpsertProgress(latest, row) ==
    /\ call' = [op |-> "upsertProgressIdempotent", before |-> latest,
                row |-> row, res |-> upsertProgressIdempotent(latest, row)]
    /\ UNCHANGED <<memVars, syncVars, procVars, kvVars, envVars, outboxStore>>

NextServer ==
    \/ \E lp \in Pages, rev \in 0..MaxServerRev : PutMeState(lp, rev)
    \/ \E latest \in {None} \cup {Some(r) : r \in ProgressRows},
          row \in ProgressRows : UpsertProgress(latest, row)

SpecServer == InitGuarded /\ [][NextServer]_vars

\* C17: a PUT writes the request's (lastPageId, clientRev) if and only if
\* there is no row or clientRev is strictly greater than the stored
\* client_rev; otherwise the row stays as it was; the response is the row
\* stored after the request; the stored client_rev does not decrease.  The
\* progress upsert follows the same rule.
C17_UpsertAppliesOnlyGreaterRev ==
    /\ call.op = "putMeState" =>
         LET applies == call.before = None \/ call.rev > call.before[1].clientRev
         IN  /\ applies => srvState = Some([lastPageId |-> call.lp,
                                            clientRev |-> call.rev])
             /\ ~applies => srvState = call.before
             /\ call.res = srvState
             /\ call.before # None
                  => srvState[1].clientRev >= call.before[1].clientRev
    /\ call.op = "upsertProgressIdempotent" =>
         LET applies == call.before = None
                        \/ call.row.clientRev > call.before[1].clientRev
         IN  /\ applies => call.res = Some(call.row)
             /\ ~applies => call.res = call.before

\* a PUT with a revision equal to or below the stored one and another page
\* has been answered
C17_Witness ==
    /\ call.op = "putMeState"
    /\ call.before # None
    /\ call.rev <= call.before[1].clientRev
    /\ call.lp # call.before[1].lastPageId
    /\ call.res = call.before

\* two PUTs in a row with the same clientRev and different pages
SameRevOtherPage ==
    /\ call.op = "putMeState"
    /\ call.prev # None
    /\ call.prev[1].rev = call.rev
    /\ call.prev[1].lp # call.lp

\* a request that the worker has received before is received again
Redelivered == call.op = "putMeState" /\ <<call.lp, call.rev>> \in call.seen

NextStale ==
    \/ Progress
    \/ \E rev \in 1..MaxServerRev : OtherDevicePut(OTHER_PAGE_ID, rev)
    \/ OpenPage(DEMO_PAGE_ID)
    \/ Tap(1, 1, 0)
    \/ Enable
    \/ TimerFire
    \/ \E j \in FlushIds : FlushLoaded(j)
    \/ \E j \in FlushIds : FlushPutOk(j)
    \/ \E j \in FlushIds : FlushCleared(j)

SpecStale == InitGuarded /\ [][NextStale]_vars

\* the push in flight carries revision r, the server stores r with another page
StalePush(j) ==
    /\ flushes[j].pc = "put"
    /\ srvState # None
    /\ srvState[1].clientRev = flushes[j].pending[1].clientRev
    /\ srvState[1].lastPageId # flushes[j].pending[1].lastPageId

\* C19: when the answer to such a push arrives, the server row is unchanged
\* and flushOnce goes on to clear the slot (the acknowledged revision is >=
\* the queued one); the step that ends the clearing leaves the slot empty.
C19_StalePushKeepsRowAndClears ==
    [][\A j \in FlushIds :
          /\ (StalePush(j) /\ flushes'[j].pc # "put")
               => /\ srvState' = srvState
                  /\ flushes'[j].pc = "clear"
          /\ (flushes[j].pc = "clear" /\ flushes'[j].pc # "clear")
               => /\ kvOutbox' = None
                  /\ flushes'[j].outcome = "cleared"]_vars

\* the slot has been cleared by a push whose revision the server already
\* stored: the row still names the other device's page at that revision
C19_Witness ==
    /\ kvOutbox = None
    /\ \E j \in FlushIds : flushes[j].outcome = "cleared"
    /\ srvState # None
    /\ srvState[1].lastPageId = OTHER_PAGE_ID
    /\ srvState[1].clientRev = clientRev
    /\ clientRev >= 1

(* ------------------------- the undo stack on its own ------------------- *)
\* popSnapshotBudgeted called with the refs holding any stack of at most
\* MaxStackLen packed snapshots, any count of undos used and a positive budget
UndoItems == {<<>>, <<0>>}
UndoStacks == UNION {[1..n -> UndoItems] : n \in 0..MaxStackLen}
UndoBudgets == {1, UNDO_BUDGET_PER_SESSION}
PopSnapshotBudgeted(stack, used, budget) ==
    /\ call' = [op |-> "popSnapshotBudgeted", stack |-> stack, used |-> used,
                budget |-> budget,
                res |-> popSnapshotBudgeted(stack, used, budget)]
    /\ UNCHANGED <<memVars, syncVars, procVars, kvVars, envVars, outboxStore>>

NextUndo ==
    \E stack \in UndoStacks, used \in 0..(UNDO_BUDGET_PER_SESSION + 1),
       budget \in UndoBudgets : PopSnapshotBudgeted(stack, used, budget)

SpecUndo == InitGuarded /\ [][NextUndo]_vars

\* C20: with a positive budget, popSnapshotBudgeted returns null and leaves
\* the stack and the used count as they are when the stack is empty or
\* used >= budget; otherwise it returns the top entry, the stack loses its
\* last element and the used count grows by exactly 1.
C20_PopBudgeted ==
    (call.op = "popSnapshotBudgeted" /\ call.budget > 0) =>
        IF call.stack = <<>> \/ call.used >= call.budget
        THEN /\ call.res.ret = None
             /\ call.res.stack = call.stack
             /\ call.res.used = call.used
        ELSE /\ call.res.ret # None
             /\ call.res.ret[1].packedB64 = call.stack[Len(call.stack)]
             /\ call.res.stack = SubSeq(call.stack, 1, Len(call.stack) - 1)
             /\ call.res.used = call.used + 1
             /\ call.res.ret[1].nextStack = call.res.stack
             /\ call.res.ret[1].nextUsed = call.res.used

\* the last undo of the budget has been taken from a full stack
C20_Witness ==
    /\ call.op = "popSnapshotBudgeted"
    /\ Len(call.stack) = MaxStackLen
    /\ call.used = call.budget - 1
    /\ call.budget = UNDO_BUDGET_PER_SESSION
    /\ call.res.ret # None
    /\ call.res.used = call.budget

(* ------------------------- one mounted useUndoHistory ------------------ *)
\* The hook of useLocalRestore.ts:222-284 used on its own: undoStackRef and
\* undoUsedRef are its refs, call is its last call with the budget it was
\* mounted with, the item of the last pushSnapshot with the stack and the used
\* count it found, what the call returned and the count of pops that have
\* returned an entry since the mount or the last resetAll.
HistoryBudgets == {1, UNDO_BUDGET_PER_SESSION}
HistoryFrame ==
    UNCHANGED <<clientRev, clientRevRef, progressB64, progressB64Ref,
                lastPageId, route, isCommittingRef, syncVars, procVars,
                kvVars, envVars, outboxStore>>

useUndoHistory(budget) ==
    /\ call = NoCall
    /\ call' = [op |-> "useUndoHistory", budget |-> budget, item |-> <<>>,
                stack |-> <<>>, used |-> 0, ret |-> None, succ |-> 0]
    /\ undoStackRef' = <<>> /\ undoUsedRef' = 0
    /\ HistoryFrame

historyPushSnapshot(item) ==
    /\ call # NoCall
    /\ undoStackRef' = pushSnapshot(undoStackRef, item)
    /\ UNCHANGED undoUsedRef
    /\ call' = [call EXCEPT !.op = "pushSnapshot", !.item = item,
                            !.stack = undoStackRef, !.used = undoUsedRef,
                            !.ret = None]
    /\ HistoryFrame

historyPopSnapshotBudgeted ==
    /\ call # NoCall
    /\ LET pop == popSnapshotBudgeted(undoStackRef, undoUsedRef, call.budget)
       IN  /\ undoStackRef' = pop.stack
           /\ undoUsedRef' = pop.used
           /\ call' = [call EXCEPT !.op = "popSnapshotBudgeted",
                                   !.ret = pop.ret,
                                   !.succ = IF pop.ret = None THEN @
                                            ELSE @ + 1]
    /\ HistoryFrame

\* a reset of the stack that would hand the budget back
resetForgettingBudget ==
    /\ call # NoCall
    /\ undoStackRef' = <<>>
    /\ undoUsedRef' = 0
    /\ call' = [call EXCEPT !.op = "resetKeepBudget", !.ret = None]
    /\ HistoryFrame

resetKeepBudget ==
    /\ call # NoCall
    /\ undoStackRef' = <<>>
    /\ undoUsedRef' = clampUsed(undoUsedRef)
    /\ call' = [call EXCEPT !.op = "resetKeepBudget", !.ret = None]
    /\ HistoryFrame

resetAll ==
    /\ call # NoCall
    /\ undoStackRef' = <<>>
    /\ undoUsedRef' = 0
    /\ call' = [call EXCEPT !.op = "resetAll", !.ret = None, !.succ = 0]
    /\ HistoryFrame

NextHistory ==
    \/ \E budget \in HistoryBudgets : useUndoHistory(budget)
    \/ \E item \in UndoItems : historyPushSnapshot(item)
    \/ historyPopSnapshotBudgeted
    \/ resetKeepBudget
    \/ resetAll

SpecHistory == InitGuarded /\ [][NextHistory]_vars

\* C21: with a budget N > 0, a popSnapshotBudgeted call on a non-empty stack
\* returns an entry exactly while fewer than N pops have returned one since
\* the mount (or the last resetAll), whatever pushes, pops and
\* resetKeepBudget calls came in between; so exactly N pops succeed and
\* every later one returns null.
C21_ExactlyNPopsSucceed ==
    [][(call # NoCall /\ call'.op = "popSnapshotBudgeted" /\ call.budget > 0
        /\ undoStackRef # <<>>)
       => /\ (call'.ret # None) <=> (call.succ < call.budget)
          /\ call'.succ <= call.budget]_vars

\* the pop after the last one of a budget of 5 has returned null on a stack
\* that still holds an entry
C21_Witness ==
    /\ call # NoCall
    /\ call.op = "popSnapshotBudgeted"
    /\ call.budget = UNDO_BUDGET_PER_SESSION
    /\ call.succ = UNDO_BUDGET_PER_SESSION
    /\ call.ret = None
    /\ undoStackRef # <<>>

(* ------------------------- fill and undo ------------------------------- *)
\* Fill-and-undo scenario: one session on the demo page in which the user
\* paints and undoes, a request possibly arriving while the commit of the one
\* before is still awaiting its writes.
NextFillUndo ==
    \/ Progress
    \/ OpenPage(DEMO_PAGE_ID)
    \/ \E i \in CommitIds, r \in 1..RegionsCount, c \in 0..(PaletteLen - 1) : Tap(i, r, c)
    \/ TapIgnored
    \/ \E i \in CommitIds : UndoOneBudgeted(i)

SpecFillUndo == InitGuarded /\ [][NextFillUndo]_vars

\* the step in which undoOneBudgeted starts the commit in slot i
UndoStarts(i) ==
    /\ commits[i].pc = "idle"
    /\ commits'[i].pc = "persist"
    /\ commits'[i].kind = "undo"

NextBudget ==
    \/ Progress
    \/ Reload
    \/ OpenPage(DEMO_PAGE_ID)
    \/ \E r \in 1..RegionsCount, c \in 0..(PaletteLen - 1) : Tap(1, r, c)
    \/ TapIgnored
    \/ \E i \in CommitIds : UndoOneBudgeted(i)
    \/ StartOverPageConfirmed(1)
    \/ goGallery
    \/ HardResetStart
    \/ HardResetDeleted
    \/ HardResetPersisted

SpecBudget == InitGuarded /\ [][NextBudget]_vars

\* C23: outside resetAll (the hard reset), the used count of a mounted app
\* never goes down: fills, undos, start-overs, commits and the restore of the
\* stored snapshot after a reload leave undoUsedRef equal or larger, and the
\* restore sets it to the stored count.
C23_BudgetUsedNeverDecreases ==
    [][/\ (reloads' = reloads /\ hardReset.pc # "delete")
          => undoUsedRef' >= undoUsedRef
       /\ (localRestore.pc = "loading" /\ localRestore'.pc = "done"
           /\ localRestore.snapshot # None)
          => undoUsedRef' = localRestore.snapshot[1].undoBudgetUsed]_vars

\* C24: resetKeepBudget empties the undo stack and leaves the used count as
\* it is, so the undos left after it (what a start over of the page leaves
\* the user) are no more than before it; resetAll empties the stack and sets
\* the used count to 0.
C24_ResetsFrame ==
    [][/\ (call # NoCall /\ call'.op = "resetKeepBudget")
          => /\ undoStackRef' = <<>>
             /\ undoUsedRef' = undoUsedRef
             /\ computeUndoLeft(call.budget, undoUsedRef')
                    <= computeUndoLeft(call.budget, undoUsedRef)
             /\ call'.succ = call.succ
       /\ (call # NoCall /\ call'.op = "resetAll")
          => /\ undoStackRef' = <<>>
             /\ undoUsedRef' = 0]_vars

\* resetKeepBudget has just run with the whole budget of 5 spent: nothing is
\* left to undo
C24_Witness ==
    /\ call # NoCall
    /\ call.op = "resetKeepBudget"
    /\ call.budget = UNDO_BUDGET_PER_SESSION
    /\ undoUsedRef = UNDO_BUDGET_PER_SESSION
    /\ undoStackRef = <<>>
    /\ computeUndoLeft(call.budget, undoUsedRef) = 0

(* ------------------------- undo without a budget ----------------------- *)
\* popSnapshotBudgeted of the earlier useUndoHistory (part_012:78-106): the
\* undos left are Math.max(0, budgetPerSession - used), whatever the sign of
\* the budget
popSnapshotBudgetedEarlier(stack, used, budget) ==
    IF Len(stack) <= 0 \/ Max(0, budget - Max(0, used)) <= 0
    THEN [ret |-> None, stack |-> stack, used |-> used]
    ELSE LET packedB64 == stack[Len(stack)]
             nextStack == SubSeq(stack, 1, Len(stack) - 1)
             nextUsed == Max(0, used) + 1
         IN  [ret |-> Some([packedB64 |-> packedB64, nextStack |-> nextStack,
                            nextUsed |-> nextUsed]),
              stack |-> nextStack, used |-> nextUsed]

\* the hook called with the refs holding any stack of at most MaxStackLen
\* snapshots and any used count, mounted with a budget that is 0, negative or
\* the app's; impl names the version of the hook
UnlimitedBudgets == {-1, 0, UNDO_BUDGET_PER_SESSION}
PopUnderBudget(impl, stack, used, budget) ==
    /\ call' = [op |-> "popSnapshotBudgeted", impl |-> impl, stack |-> stack,
                used |-> used, budget |-> budget,
                res |-> IF impl = "earlier"
                        THEN popSnapshotBudgetedEarlier(stack, used, budget)
                        ELSE popSnapshotBudgeted(stack, used, budget)]
    /\ UNCHANGED <<memVars, syncVars, procVars, kvVars, envVars, outboxStore>>

NextUnlimited ==
    \E impl \in {"earlier", "current"}, stack \in UndoStacks,
       used \in 0..(UNDO_BUDGET_PER_SESSION + 1), budget \in UnlimitedBudgets :
        PopUnderBudget(impl, stack, used, budget)

SpecUnlimited == InitGuarded /\ [][NextUnlimited]_vars

\* C25: with budgetPerSession <= 0, popSnapshotBudgeted returns the top entry
\* whenever the stack is non-empty, whatever the used count.
C25_NoBudgetMeansUnlimited ==
    (call.op = "popSnapshotBudgeted" /\ call.budget <= 0 /\ call.stack # <<>>)
        => /\ call.res.ret # None
           /\ call.res.ret[1].packedB64 = call.stack[Len(call.stack)]
           /\ call.res.stack = SubSeq(call.stack, 1, Len(call.stack) - 1)

\* the step in which a tap on a region starts the commit in slot i
FillStarts(i) ==
    /\ commits[i].pc = "idle"
    /\ commits'[i].pc = "persist"
    /\ commits'[i].kind = "tap"

\* C26: a fill that changes the progress puts the progress bytes of before
\* the fill on top of the undo stack and leaves the used count alone, and a
\* successful undo sets the progress to the top entry, takes it off the stack
\* and adds 1 to the used count; so a fill followed at once by an undo gives
\* back the progress bytes and the stack of before the fill, with one more
\* undo used.
C26_FillThenUndoRestores ==
    [][\A i \in CommitIds :
        /\ (FillStarts(i) /\ fillsOf(progressB64') # fillsOf(progressB64))
           => /\ undoStackRef' = Append(undoStackRef, fillsOf(progressB64))
              /\ undoUsedRef' = undoUsedRef
        /\ UndoStarts(i)
           => /\ progressB64' = undoStackRef[Len(undoStackRef)]
              /\ undoStackRef' = SubSeq(undoStackRef, 1, Len(undoStackRef) - 1)
              /\ undoUsedRef' = undoUsedRef + 1]_vars

\* the undo stack savePageSnapshot writes when it is handed the refs
StoredUndoStack ==
    savePageSnapshot(buildSnapshot(0, <<>>, undoStackRef,
                                   undoUsedRef)).undoStackB64

\* C27: the undo stack never holds more than 64 entries, in the refs and in
\* the snapshot written from them; a push onto a full stack drops the oldest
\* entry and keeps the 63 newest in order under the pushed one.
C27_StackIsCapped ==
    /\ Len(undoStackRef) <= undoStackMax
    /\ Len(StoredUndoStack) <= MAX_UNDO_STACK
    /\ (call # NoCall /\ call.op = "pushSnapshot"
        /\ Len(call.stack) = undoStackMax
        /\ call.stack[undoStackMax] # call.item)
       => undoStackRef = Append(SubSeq(call.stack, 2, undoStackMax),
                                call.item)

\* a push has just been made onto a full stack: the stack is still full, the
\* pushed item is its top and the entry that was second is now the oldest
C27_Witness ==
    /\ call # NoCall
    /\ call.op = "pushSnapshot"
    /\ Len(call.stack) = undoStackMax
    /\ Len(undoStackRef) = undoStackMax
    /\ undoStackRef[undoStackMax] = call.item
    /\ undoStackRef[1] = call.stack[2]
    /\ undoStackRef[1] # call.stack[1]
    /\ Len(StoredUndoStack) > 0

\* C28: pushSnapshot of an item equal to the top of the stack leaves the
\* stack as it is; of any other item it makes that item the new top over the
\* entries that were there; it never changes the used count.
C28_PushDedupes ==
    (call # NoCall /\ call.op = "pushSnapshot")
    => /\ undoUsedRef = call.used
       /\ IF call.stack # <<>> /\ call.stack[Len(call.stack)] = call.item
          THEN undoStackRef = call.stack
          ELSE /\ undoStackRef # <<>>
               /\ undoStackRef[Len(undoStackRef)] = call.item
               /\ Len(call.stack) < undoStackMax
                  => undoStackRef = Append(call.stack, call.item)
               /\ Len(call.stack) = undoStackMax
                  => SubSeq(undoStackRef, 1, undoStackMax - 1)
                         = SubSeq(call.stack, 2, undoStackMax)

\* the item on top of the stack has just been pushed again with an undo
\* used: the stack still has its two entries
C28_Witness ==
    /\ call # NoCall
    /\ call.op = "pushSnapshot"
    /\ Len(call.stack) = 2
    /\ call.stack[2] = call.item
    /\ undoStackRef = call.stack
    /\ undoUsedRef = 1

(* ------------------------- the snapshot store on its own --------------- *)
\* What savePageSnapshot writes (snapshot.ts:379-420) and what normalizeV2
\* returns for a stored v2 record of the page (snapshot.ts:281-341): both
\* sanitise the progress with the record's own regionsCount and paletteLen
\* and filter the undo stack by the text length expected for regionsCount.
normalizeV2(snap) ==
    LET rc == snap.regionsCount
        pl == snap.paletteLen
        p == sanitizeProgressB64(snap.progressB64, rc, pl)
        expectedB64Len == IF rc > 0 THEN expectedBase64LenForBytesLen(rc)
                          ELSE 0
    IN  [clientRev |-> snap.clientRev,
         progressB64 |-> p,
         regionsCount |-> rc,
         paletteLen |-> pl,
         undoStackB64 |-> Take(sanitizeUndoStackB64(snap.undoStackB64,
                                                    expectedB64Len),
                               MAX_UNDO_STACK),
         undoBudgetUsed |-> IF snap.undoBudgetUsed > MAX_UNDO_STACK
                            THEN MAX_UNDO_STACK ELSE snap.undoBudgetUsed]

\* One call per behaviour: the functions are pure, so a second call adds no
\* state that a first call does not reach.
\* packed texts of at most MaxBytesLen bytes, painted with colour 0 or not
PackedTexts == UNION {[1..n -> {0, UNPAINTED}] : n \in 0..MaxBytesLen}
SnapStacks == UNION {[1..n -> PackedTexts] : n \in 0..MaxSnapStackLen}
Snapshots ==
    [clientRev : {0}, progressB64 : PackedTexts,
     regionsCount : 0..RegionsCount, paletteLen : 0..PaletteLen,
     undoStackB64 : SnapStacks, undoBudgetUsed : {0}]

SavePageSnapshot(snap) ==
    /\ call' = [op |-> "savePageSnapshot", snap |-> snap,
                res |-> Some(normalizeV2(snap))]
    /\ UNCHANGED <<memVars, syncVars, procVars, kvVars, envVars, outboxStore>>

LoadPageSnapshot(stored) ==
    /\ call' = [op |-> "loadPageSnapshot", snap |-> stored,
                res |-> Some(normalizeV2(stored))]
    /\ UNCHANGED <<memVars, syncVars, procVars, kvVars, envVars, outboxStore>>

NextSnapshot ==
    /\ call = NoCall
    /\ \E snap \in Snapshots :
           SavePageSnapshot(snap) \/ LoadPageSnapshot(snap)

SpecSnapshot == InitGuarded /\ [][NextSnapshot]_vars

\* C29: every entry of undoStackB64 in a snapshot written by save or
\* returned by load decodes to exactly regionsCount bytes.
C29_UndoEntriesHaveRegionsCountBytes ==
    call.op \in {"savePageSnapshot", "loadPageSnapshot"}
    => \A k \in 1..Len(call.res[1].undoStackB64) :
           Len(call.res[1].undoStackB64[k]) = call.res[1].regionsCount

\* C30: in every snapshot written by save or returned by load, progressB64
\* passes decodeBase64ToBytes with the snapshot's own regionsCount and
\* paletteLen, whatever the input, regionsCount 0 included.
C30_ProgressAlwaysDecodes ==
    call.op \in {"savePageSnapshot", "loadPageSnapshot"}
    => decodeOk(call.res[1].progressB64, call.res[1].regionsCount,
                call.res[1].paletteLen)

(* ------------------- loadPageSnapshot on any stored record ------------- *)
\* a numeric field that is missing or not a finite non-negative integer
Absent == -1
isFiniteNonNegativeInt(v) == v >= 0
CONTENT_HASH == "hash_demo"
OTHER_HASH == "hash_other"

\* a v1 upgrade that would keep whatever paint the record carries
normalizeV1KeepingPaint(snap, pageId, contentHash, fallbackPaletteLen, fallbackRegionsCount) ==
    [schemaVersion |-> 2, pageId |-> pageId, contentHash |-> contentHash,
     clientRev |-> snap.clientRev, demoCounter |-> snap.demoCounter,
     paletteIdx |-> snap.paletteIdx, progressB64 |-> snap.progressB64,
     regionsCount |-> fallbackRegionsCount, paletteLen |-> fallbackPaletteLen,
     undoStackB64 |-> snap.undoStackB64,
     undoBudgetUsed |-> snap.undoBudgetUsed]

\* normalizeV1 (snapshot.ts:245-277): the paint state is dropped
normalizeV1(snap, pageId, contentHash, fallbackPaletteLen, fallbackRegionsCount) ==
    LET rc == fallbackRegionsCount
        pl == fallbackPaletteLen
    IN  [schemaVersion |-> 2,
         pageId |-> pageId,
         contentHash |-> contentHash,
         clientRev |-> IF isFiniteNonNegativeInt(snap.clientRev)
                       THEN snap.clientRev ELSE 0,
         demoCounter |-> IF isFiniteNonNegativeInt(snap.demoCounter)
                         THEN snap.demoCounter ELSE 0,
         paletteIdx |-> IF isFiniteNonNegativeInt(snap.paletteIdx)
                        THEN snap.paletteIdx ELSE 0,
         progressB64 |-> makeEmptyProgressBytes(rc),
         regionsCount |-> rc,
         paletteLen |-> pl,
         undoStackB64 |-> <<>>,
         undoBudgetUsed |-> 0]

\* a v2 normalisation that would trust the key and skip the identity check
normalizeV2TrustingKey(snap, pageId, contentHash, fallbackPaletteLen, fallbackRegionsCount) ==
    Some([schemaVersion |-> 2, pageId |-> pageId, contentHash |-> contentHash,
          clientRev |-> snap.clientRev, demoCounter |-> snap.demoCounter,
          paletteIdx |-> snap.paletteIdx, progressB64 |-> snap.progressB64,
          regionsCount |-> fallbackRegionsCount,
          paletteLen |-> fallbackPaletteLen,
          undoStackB64 |-> snap.undoStackB64,
          undoBudgetUsed |-> snap.undoBudgetUsed])

\* normalizeV2 (snapshot.ts:279-339) with its identity check and fallbacks;
\* the result is None for JS null
normalizeV2Compat(snap, pageId, contentHash, fallbackPaletteLen, fallbackRegionsCount) ==
    IF snap.pageId # pageId THEN None
    ELSE IF snap.contentHash # contentHash THEN None
    ELSE
    LET rcCandidate == IF isFiniteNonNegativeInt(snap.regionsCount)
                       THEN snap.regionsCount ELSE fallbackRegionsCount
        plCandidate == IF isFiniteNonNegativeInt(snap.paletteLen)
                       THEN snap.paletteLen ELSE fallbackPaletteLen
        n == normalizeV2([snap EXCEPT !.regionsCount = rcCandidate,
                                      !.paletteLen = plCandidate])
    IN  Some([schemaVersion |-> 2,
              pageId |-> pageId,
              contentHash |-> contentHash,
              clientRev |-> IF isFiniteNonNegativeInt(snap.clientRev)
                            THEN snap.clientRev ELSE 0,
              demoCounter |-> IF isFiniteNonNegativeInt(snap.demoCounter)
                              THEN snap.demoCounter ELSE 0,
              paletteIdx |-> IF isFiniteNonNegativeInt(snap.paletteIdx)
                             THEN snap.paletteIdx ELSE 0,
              progressB64 |-> n.progressB64,
              regionsCount |-> n.regionsCount,
              paletteLen |-> n.paletteLen,
              undoStackB64 |-> n.undoStackB64,
              undoBudgetUsed |-> n.undoBudgetUsed])

\* loadPageSnapshot (snapshot.ts:341-377): stored is what getJson finds
\* under makePageKey(pageId, contentHash), None when the key is empty
loadPageSnapshotCompat(stored, pageId, contentHash, opts) ==
    IF stored = None THEN None
    ELSE LET snap == stored[1]
         IN  IF snap.schemaVersion = 2
             THEN normalizeV2Compat(snap, pageId, contentHash,
                                    opts.paletteLen, opts.regionsCount)
             ELSE IF snap.schemaVersion = 1
             THEN IF snap.pageId # pageId THEN None
                  ELSE IF snap.contentHash # contentHash THEN None
                  ELSE Some(normalizeV1(snap, pageId, contentHash,
                                        opts.paletteLen, opts.regionsCount))
             ELSE None

\* records the store may hold under the key: any schema version, either
\* identity, counters as written by the app, sizes present or absent
StoredStacks ==
    {<<>>} \cup {<<makeEmptyProgressBytes(n)>> : n \in 1..MaxBytesLen}
StoredRecords ==
    [schemaVersion : {1, 2, 3}, pageId : Pages,
     contentHash : {CONTENT_HASH, OTHER_HASH},
     clientRev : {1}, demoCounter : {2}, paletteIdx : {1},
     progressB64 : PackedTexts,
     regionsCount : {Absent} \cup (0..RegionsCount),
     paletteLen : {Absent} \cup (0..PaletteLen),
     undoStackB64 : StoredStacks, undoBudgetUsed : {1}]
LoadOpts == [regionsCount : 0..RegionsCount, paletteLen : 0..PaletteLen]

LoadPageSnapshotCompat(stored, opts) ==
    /\ call' = [op |-> "load", stored |-> stored, pageId |-> DEMO_PAGE_ID,
                contentHash |-> CONTENT_HASH, opts |-> opts,
                res |-> loadPageSnapshotCompat(stored, DEMO_PAGE_ID,
                                               CONTENT_HASH, opts)]
    /\ UNCHANGED <<memVars, syncVars, procVars, kvVars, envVars, outboxStore>>

NextLoad ==
    /\ call = NoCall
    /\ \E opts \in LoadOpts :
           \/ LoadPageSnapshotCompat(None, opts)
           \/ \E rec \in StoredRecords : LoadPageSnapshotCompat(Some(rec), opts)

SpecLoad == InitGuarded /\ [][NextLoad]_vars

\* a load of a v2 record stored for the requested page
LoadedV2 ==
    /\ call.op = "load"
    /\ call.stored # None
    /\ call.stored[1].schemaVersion = 2
    /\ call.stored[1].pageId = call.pageId
    /\ call.stored[1].contentHash = call.contentHash

\* C31: when the stored progress decodes to a number of bytes other than the
\* regionsCount the caller passes, load returns a snapshot whose progress is
\* all-UNPAINTED of the caller's regionsCount and keeps clientRev and
\* paletteIdx.
C31_WrongLengthProgressIsReset ==
    (/\ LoadedV2
     /\ call.stored[1].progressB64 # <<>>
     /\ Len(call.stored[1].progressB64) # call.opts.regionsCount)
    => /\ call.res # None
       /\ call.res[1].progressB64
              = makeEmptyProgressBytes(call.opts.regionsCount)
       /\ call.res[1].clientRev = call.stored[1].clientRev
       /\ call.res[1].paletteIdx = call.stored[1].paletteIdx

\* a load of a v1 record stored for the requested page
LoadedV1 ==
    /\ call.op = "load"
    /\ call.stored # None
    /\ call.stored[1].schemaVersion = 1
    /\ call.stored[1].pageId = call.pageId
    /\ call.stored[1].contentHash = call.contentHash

\* C32: loading a stored v1 record yields a v2 snapshot with all-UNPAINTED
\* progress of the fallback regionsCount and an empty undo stack, and with
\* the stored clientRev, demoCounter and paletteIdx.
C32_V1UpgradesWithEmptyProgress ==
    LoadedV1
    => /\ call.res # None
       /\ call.res[1].schemaVersion = 2
       /\ call.res[1].progressB64
              = makeEmptyProgressBytes(call.opts.regionsCount)
       /\ call.res[1].regionsCount = call.opts.regionsCount
       /\ call.res[1].paletteLen = call.opts.paletteLen
       /\ call.res[1].undoStackB64 = <<>>
       /\ call.res[1].undoBudgetUsed = 0
       /\ call.res[1].clientRev = call.stored[1].clientRev
       /\ call.res[1].demoCounter = call.stored[1].demoCounter
       /\ call.res[1].paletteIdx = call.stored[1].paletteIdx

\* a v1 record that carries paint, an undo entry and non-zero counters is
\* loaded for a page with regions
C32_Witness ==
    /\ LoadedV1
    /\ call.opts.regionsCount = RegionsCount
    /\ call.stored[1].progressB64 = [i \in 1..RegionsCount |-> 0]
    /\ call.stored[1].undoStackB64 # <<>>
    /\ call.stored[1].clientRev > 0
    /\ call.res # None
    /\ call.res[1].clientRev > 0
    /\ call.res[1].progressB64 = makeEmptyProgressBytes(RegionsCount)

\* the record under the key is one load may return: it is there, it is the
\* requested page's, and its schema version is 1 or 2
StoredIsLoadable ==
    /\ call.stored # None
    /\ call.stored[1].pageId = call.pageId
    /\ call.stored[1].contentHash = call.contentHash
    /\ call.stored[1].schemaVersion \in {1, 2}

\* C33: load returns null when no record is stored under the key, when the
\* stored record's pageId or contentHash differs from the requested ones, or
\* when its schemaVersion is neither 1 nor 2; a snapshot it returns is the
\* requested page's and carries the requested pageId and contentHash.
C33_LoadChecksIdentity ==
    call.op = "load"
    => /\ ~StoredIsLoadable => call.res = None
       /\ call.res # None
          => /\ StoredIsLoadable
             /\ call.res[1].pageId = call.pageId
             /\ call.res[1].contentHash = call.contentHash

\* a well-formed v2 record of another page sits under the key and load
\* returns null
C33_Witness ==
    /\ call.op = "load"
    /\ call.stored # None
    /\ call.stored[1].schemaVersion = 2
    /\ call.stored[1].pageId = OTHER_PAGE_ID
    /\ call.stored[1].contentHash = call.contentHash
    /\ call.stored[1].regionsCount = call.opts.regionsCount
    /\ call.stored[1].regionsCount > 0
    /\ Len(call.stored[1].progressB64) = call.stored[1].regionsCount
    /\ call.res = None

(* ------------------------- reset of all local state -------------------- *)
\* C34: when the reset of all local state completes, no snapshot record is
\* stored for the page: a load that follows returns null.
C34_ResetLeavesNoSnapshot ==
    [][(hardReset.pc = "persist" /\ hardReset'.pc = "idle")
       => loadPageSnapshot(kvSnapshot') = None]_vars

(* ----------------------- pack.ts: compiling a context ------------------- *)
\* Strings are modelled by a few representatives; " R1" and " c0" carry
\* surrounding white space, " " is blank.
trim(s) ==
    CASE s = " " -> ""
      [] s = " R1" -> "R1"
      [] s = " c0" -> "c0"
      [] OTHER -> s

\* DEFAULTS (pack.ts:127-136)
DEFAULTS ==
    [maxRegions |-> 20000, maxPaletteLen |-> 64, maxFillEntries |-> 10000,
     ignoreUnknownRegions |-> TRUE, ignoreUnknownColors |-> TRUE,
     strictInputs |-> TRUE, allowDuplicateRegionIds |-> FALSE,
     allowDuplicatePaletteColors |-> FALSE]

\* a thrown Error(reason) / a returned value
Threw(reason) == [ok |-> FALSE, reason |-> reason]
Returned(v) == [ok |-> TRUE, value |-> v]

\* A list argument: isArray is Array.isArray(input), items its elements
ListArg(items) == [isArray |-> TRUE, items |-> items]
NotAnArray == [isArray |-> FALSE, items |-> <<>>]

\* the subsequence of s at the indices in K, in order
AtIndices(s, K) ==
    [n \in 1..Cardinality(K) |->
        s[CHOOSE i \in K : Cardinality({j \in K : j <= i}) = n]]

\* normalizeStrictList (pack.ts:160-187): validates, trims, keeps every item
normalizeStrictList(input, maxLen, kind, allowDuplicates) ==
    IF ~input.isArray THEN Threw(<<kind, "INPUT_NOT_ARRAY">>)
    ELSE IF Len(input.items) > maxLen THEN Threw(<<kind, "INPUT_TOO_LARGE">>)
    ELSE
    LET items == input.items
        empty(i) == trim(items[i]) = ""
        dup(i) == /\ ~allowDuplicates
                  /\ \E j \in 1..(i - 1) : trim(items[j]) = trim(items[i])
        failing == {i \in 1..Len(items) : empty(i) \/ dup(i)}
    IN  IF failing = {} THEN Returned([i \in 1..Len(items) |-> trim(items[i])])
        ELSE LET i0 == CHOOSE i \in failing : \A j \in failing : i <= j
             IN  IF empty(i0) THEN Threw(<<kind, "EMPTY_ITEM_AT">>)
                 ELSE Threw(<<kind, "DUPLICATE_ITEM">>)

\* normalizeCoerceList (pack.ts:189-209): trims, drops empty and repeated
\* items, looks at the first maxLen items only
normalizeCoerceList(input, maxLen) ==
    IF ~input.isArray \/ Len(input.items) = 0 THEN Returned(<<>>)
    ELSE
    LET items == input.items
        limit == IF Len(items) < maxLen THEN Len(items) ELSE maxLen
        kept == {i \in 1..limit :
                    /\ trim(items[i]) # ""
                    /\ \A j \in 1..(i - 1) : trim(items[j]) # trim(items[i])}
    IN  Returned(AtIndices([i \in 1..Len(items) |-> trim(items[i])], kept))

normalizeRegionOrder(regionOrder, opts) ==
    IF opts.strictInputs
    THEN normalizeStrictList(regionOrder, opts.maxRegions, "REGION",
                             opts.allowDuplicateRegionIds)
    ELSE normalizeCoerceList(regionOrder, opts.maxRegions)

normalizePalette(palette, opts) ==
    IF opts.strictInputs
    THEN normalizeStrictList(palette, opts.maxPaletteLen, "PALETTE",
                             opts.allowDuplicatePaletteColors)
    ELSE normalizeCoerceList(palette, opts.maxPaletteLen)

\* buildIndexMap (pack.ts:211-215): a later position overwrites an earlier
\* one of the same key. Positions count from 1 here, from 0 in the source.
buildIndexMap(keys) ==
    [k \in {keys[i] : i \in 1..Len(keys)} |->
        CHOOSE i \in 1..Len(keys) :
            keys[i] = k /\ \A j \in 1..Len(keys) : keys[j] = k => j <= i]

\* compilePackContext (pack.ts:325-351); opts is the merged option record
compilePackContext(regionOrder, palette, opts) ==
    LET regions == normalizeRegionOrder(regionOrder, opts)
        pal == normalizePalette(palette, opts)
    IN  IF ~regions.ok THEN regions
        ELSE IF ~pal.ok THEN pal
        ELSE IF opts.strictInputs /\ Len(regions.value) <= 0
        THEN Threw(<<"REGION", "EMPTY">>)
        ELSE IF opts.strictInputs /\ Len(pal.value) <= 0
        THEN Threw(<<"PALETTE", "EMPTY">>)
        ELSE Returned([regions |-> regions.value,
                       palette |-> pal.value,
                       regionIndex |-> buildIndexMap(regions.value),
                       colorIndex |-> buildIndexMap(pal.value),
                       regionsCount |-> Len(regions.value),
                       paletteLen |-> Len(pal.value),
                       opts |-> opts])

\* tryCompilePackContext (pack.ts:357-371): the Error becomes a result
tryCompilePackContext(regionOrder, palette, opts) ==
    LET r == compilePackContext(regionOrder, palette, opts)
    IN  IF r.ok THEN [ok |-> TRUE, ctx |-> r.value]
        ELSE [ok |-> FALSE, reason |-> r.reason]

\* inputs of compilePackContext
RegionStrs == {"", " ", "R1", " R1", "R2"}
ColorStrs == {"", "c0", " c0", "c1"}
RegionOrders ==
    {NotAnArray} \cup
    {ListArg(l) : l \in UNION {[1..n -> RegionStrs] : n \in 0..MaxListLen}}
Palettes ==
    {NotAnArray} \cup
    {ListArg(l) : l \in UNION {[1..n -> ColorStrs] : n \in 0..MaxListLen}}
CompileOptions ==
    {[DEFAULTS EXCEPT !.maxRegions = mr, !.maxPaletteLen = mp,
                      !.strictInputs = si, !.allowDuplicateRegionIds = dr,
                      !.allowDuplicatePaletteColors = dp] :
        mr \in {1, DEFAULTS.maxRegions}, mp \in {1, DEFAULTS.maxPaletteLen},
        si \in BOOLEAN, dr \in BOOLEAN, dp \in BOOLEAN}

CompilePackContext(regionOrder, palette, opts) ==
    /\ call' = [op |-> "compilePackContext", regionOrder |-> regionOrder,
                palette |-> palette, opts |-> opts,
                res |-> compilePackContext(regionOrder, palette, opts),
                try |-> tryCompilePackContext(regionOrder, palette, opts)]
    /\ UNCHANGED <<memVars, syncVars, procVars, kvVars, envVars, outboxStore>>

NextCompile ==
    /\ call = NoCall
    /\ \E regionOrder \in RegionOrders, palette \in Palettes,
          opts \in CompileOptions :
           CompilePackContext(regionOrder, palette, opts)

SpecCompile == InitGuarded /\ [][NextCompile]_vars

\* the strict contract rejects the list
StrictRejects(list, maxLen, allowDuplicates) ==
    \/ ~list.isArray
    \/ Len(list.items) > maxLen
    \/ \E i \in 1..Len(list.items) : trim(list.items[i]) = ""
    \/ /\ ~allowDuplicates
       /\ \E i, j \in 1..Len(list.items) :
              i # j /\ trim(list.items[i]) = trim(list.items[j])

\* C38: with strictInputs, compile fails when either list is not an array,
\* is longer than its maximum, has an empty item or has a duplicate that is
\* not allowed; when it succeeds the context holds every item of both lists
\* at its input position and regionIndex maps the id at position i to i; the
\* non-throwing variant fails exactly when compile raises.
C38_StrictCompileKeepsLists ==
    call.op = "compilePackContext"
    => /\ call.try.ok = call.res.ok
       /\ call.opts.strictInputs
          => /\ (\/ StrictRejects(call.regionOrder, call.opts.maxRegions,
                                  call.opts.allowDuplicateRegionIds)
                 \/ StrictRejects(call.palette, call.opts.maxPaletteLen,
                                  call.opts.allowDuplicatePaletteColors))
                => ~call.res.ok
             /\ call.res.ok
                => LET ctx == call.res.value
                   IN  /\ Len(ctx.regions) = Len(call.regionOrder.items)
                       /\ Len(ctx.palette) = Len(call.palette.items)
                       /\ \A i \in 1..Len(ctx.regions) :
                              /\ ctx.regions[i] = trim(call.regionOrder.items[i])
                              /\ ctx.regionIndex[ctx.regions[i]] = i
                       /\ \A i \in 1..Len(ctx.palette) :
                              ctx.palette[i] = trim(call.palette.items[i])

(* ----------------------- pack.ts: packing a fill map -------------------- *)
\* A FillMap is modelled by its own properties in enumeration (insertion)
\* order, each a pair <<regionId, color>> with distinct ids; isObject is
\* false for a value that is no object.
FillsArg(entries) == [isObject |-> TRUE, entries |-> entries]
NotAnObject == [isObject |-> FALSE, entries |-> <<>>]

\* the loop of packFillMapToBytesWithContext (pack.ts:405-431) from entry k
\* on: res is Returned(bytes so far); limit is the number of entries looked at
RECURSIVE packEntries(_, _, _, _, _)
packEntries(entries, k, limit, bytes, ctx) ==
    IF k > limit THEN Returned(bytes)
    ELSE
    LET rid == trim(entries[k][1])
        color == trim(entries[k][2])
        next(b) == packEntries(entries, k + 1, limit, b, ctx)
    IN  IF rid = "" \/ color = "" THEN next(bytes)
        ELSE IF rid \notin DOMAIN ctx.regionIndex
        THEN IF ctx.opts.ignoreUnknownRegions THEN next(bytes)
             ELSE Threw(<<"PACK_UNKNOWN_REGION", rid>>)
        ELSE IF color \notin DOMAIN ctx.colorIndex
        THEN IF ctx.opts.ignoreUnknownColors THEN next(bytes)
             ELSE Threw(<<"PACK_UNKNOWN_COLOR", color>>)
        ELSE next([bytes EXCEPT ![ctx.regionIndex[rid]] =
                                    ctx.colorIndex[color] - 1])

\* packFillMapToBytesWithContext (pack.ts:395-434)
packFillMapToBytesWithContext(fills, ctx) ==
    IF ~fills.isObject THEN Returned(makeEmptyProgressBytes(ctx.regionsCount))
    ELSE LET n == Len(fills.entries)
             limit == IF n < ctx.opts.maxFillEntries THEN n
                      ELSE ctx.opts.maxFillEntries
         IN  packEntries(fills.entries, 1, limit,
                         makeEmptyProgressBytes(ctx.regionsCount), ctx)

\* unpackBytesToFillMapWithContext (pack.ts:453-473): the FillMap as a
\* function from region id to color; a later position overwrites an earlier
\* one of the same id
unpackBytesToFillMapWithContext(bytes, ctx) ==
    LET n == IF Len(bytes) < ctx.regionsCount THEN Len(bytes)
             ELSE ctx.regionsCount
        painted == {i \in 1..n : /\ bytes[i] # UNPAINTED
                                 /\ bytes[i] < ctx.paletteLen
                                 /\ ctx.regions[i] # ""
                                 /\ ctx.palette[bytes[i] + 1] # ""}
        last(rid) == CHOOSE i \in painted :
                        /\ ctx.regions[i] = rid
                        /\ \A j \in painted : ctx.regions[j] = rid => j <= i
    IN  [rid \in {ctx.regions[i] : i \in painted} |->
            ctx.palette[bytes[last(rid)] + 1]]

\* inputs: lists that compile, options of the pack loop, fill maps
PackRegionStrs == {"R1", " R1", "R2"}
PackColorStrs == {"c0", "c1"}
PackOptions ==
    {[DEFAULTS EXCEPT !.maxFillEntries = mf, !.ignoreUnknownRegions = ir,
                      !.ignoreUnknownColors = ic] :
        mf \in {1, DEFAULTS.maxFillEntries}, ir \in BOOLEAN, ic \in BOOLEAN}
FillEntries == (PackRegionStrs \cup {"RX"}) \X (PackColorStrs \cup {"cX", ""})
FillMaps ==
    {NotAnObject} \cup
    {FillsArg(es) :
        es \in {s \in UNION {[1..n -> FillEntries] : n \in 0..MaxFillEntries} :
                   \A i, j \in 1..Len(s) : i # j => s[i][1] # s[j][1]}}

PackAndUnpack(regionOrder, palette, opts, fills) ==
    LET c == compilePackContext(ListArg(regionOrder), ListArg(palette), opts)
    IN  /\ c.ok
        /\ LET packed == packFillMapToBytesWithContext(fills, c.value)
           IN  call' = [op |-> "pack", regionOrder |-> regionOrder,
                        palette |-> palette, ctx |-> c.value, fills |-> fills,
                        packed |-> packed,
                        unpacked |-> IF packed.ok
                                     THEN Some(unpackBytesToFillMapWithContext(
                                                   packed.value, c.value))
                                     ELSE None]
        /\ UNCHANGED <<memVars, syncVars, procVars, kvVars, envVars, outboxStore>>

NextPack ==
    /\ call = NoCall
    /\ \E regionOrder \in UNION {[1..n -> PackRegionStrs] : n \in 1..MaxListLen},
          palette \in UNION {[1..n -> PackColorStrs] : n \in 1..MaxListLen},
          opts \in PackOptions, fills \in FillMaps :
           PackAndUnpack(regionOrder, palette, opts, fills)

SpecPack == InitGuarded /\ [][NextPack]_vars

\* the fill map as a function from region id to color
SparseOf(fills) ==
    [rid \in {fills.entries[i][1] : i \in 1..Len(fills.entries)} |->
        LET i == CHOOSE i \in 1..Len(fills.entries) : fills.entries[i][1] = rid
        IN  fills.entries[i][2]]

\* the keys of the map are ids of regionOrder, its values colors of palette
RestrictedToKnown(fills, regionOrder, palette) ==
    /\ fills.isObject
    /\ \A i \in 1..Len(fills.entries) :
           /\ \E k \in 1..Len(regionOrder) : regionOrder[k] = fills.entries[i][1]
           /\ \E k \in 1..Len(palette) : palette[k] = fills.entries[i][2]

\* C35: for every regionOrder and palette that compile and every fill map
\* whose keys are ids of regionOrder and whose values are colors of palette,
\* unpacking the packed bytes gives the fill map back, however many entries
\* the map has.
C35_PackUnpackRoundTrip ==
    (call.op = "pack" /\ RestrictedToKnown(call.fills, call.regionOrder, call.palette))
    => /\ call.packed.ok
       /\ call.unpacked = Some(SparseOf(call.fills))

\* the entry names a region of the context and a color of its palette
KnownEntry(e, ctx) ==
    /\ trim(e[1]) \in DOMAIN ctx.regionIndex
    /\ trim(e[2]) \in DOMAIN ctx.colorIndex
WithoutUnknown(fills, ctx) ==
    [fills EXCEPT !.entries = SelectSeq(fills.entries,
                                        LAMBDA e : KnownEntry(e, ctx))]

\* C36: for every compiled context and every fill map the packed byte array
\* has exactly regionsCount bytes, each UNPAINTED or below paletteLen; with
\* the default options pack does not throw and an entry with an unknown
\* region id or an unknown color changes no byte: the bytes are those of the
\* map without such entries.
C36_PackedLengthAndRange ==
    call.op = "pack"
    => /\ call.packed.ok
          => /\ Len(call.packed.value) = call.ctx.regionsCount
             /\ \A i \in 1..Len(call.packed.value) :
                    \/ call.packed.value[i] = UNPAINTED
                    \/ call.packed.value[i] < call.ctx.paletteLen
       /\ (call.ctx.opts.ignoreUnknownRegions /\ call.ctx.opts.ignoreUnknownColors)
          => /\ call.packed.ok
             /\ call.packed
                    = packFillMapToBytesWithContext(
                          WithoutUnknown(call.fills, call.ctx), call.ctx)

(* ----------------------- pack.ts: decoding base64 ----------------------- *)
\* A base64 text is modelled by its shape and the bytes a decoder that
\* accepts it yields:
\*   "empty"     the empty string;  "blank"  white space only
\*   "canonical" the padded encoding of bytes (what btoa writes)
\*   "unpadded"  the encoding of bytes with its trailing "=" left out
\*   "junk"      the canonical encoding of bytes followed by a character
\*               outside the alphabet, such as "!"
Base64Texts ==
    LET Bytes == UNION {[1..n -> {0, 1, UNPAINTED}] : n \in 0..MaxBytesLen}
    IN  {[kind |-> "empty", bytes |-> <<>>], [kind |-> "blank", bytes |-> <<>>]}
        \cup {[kind |-> "canonical", bytes |-> b] : b \in Bytes \ {<<>>}}
        \cup {[kind |-> "unpadded", bytes |-> b] :
                 b \in {x \in Bytes : Len(x) % 3 # 0}}
        \cup {[kind |-> "junk", bytes |-> b] : b \in Bytes}
\* the runtime has Node's Buffer, or only atob
Runtimes == {"Buffer", "atob"}

\* base64ToBytes (pack.ts:255-277): None is null. Buffer.from(s, "base64")
\* never throws and decodes what it can; atob throws on a character outside
\* the alphabet and accepts missing padding.
base64ToBytes(b64, runtime) ==
    IF b64.kind \in {"empty", "blank"} THEN None
    ELSE IF b64.kind = "junk" /\ runtime = "atob" THEN None
    ELSE Some(b64.bytes)

\* decodeBase64ToBytes (pack.ts:502-525)
decodeBase64ToBytes(b64, regionsCount, paletteLen, runtime) ==
    LET rc == regionsCount
        pl == IF paletteLen > DEFAULTS.maxPaletteLen
              THEN DEFAULTS.maxPaletteLen ELSE paletteLen
        bytes == base64ToBytes(b64, runtime)
    IN  IF b64.kind \in {"empty", "blank"}
        THEN [ok |-> FALSE, reason |-> "B64_EMPTY"]
        ELSE IF bytes = None
        THEN [ok |-> FALSE, reason |-> "B64_DECODE_FAILED"]
        ELSE IF Len(bytes[1]) # rc
        THEN [ok |-> FALSE, reason |-> "B64_LENGTH_MISMATCH"]
        ELSE IF \E i \in 1..Len(bytes[1]) :
                    bytes[1][i] # UNPAINTED /\ bytes[1][i] >= pl
        THEN [ok |-> FALSE, reason |-> "B64_VALUE_OUT_OF_RANGE"]
        ELSE [ok |-> TRUE, bytes |-> bytes[1]]

DecodeBase64ToBytes(b64, rc, pl, runtime) ==
    /\ call' = [op |-> "decodeBase64ToBytes", b64 |-> b64, rc |-> rc,
                pl |-> pl, runtime |-> runtime,
                res |-> decodeBase64ToBytes(b64, rc, pl, runtime)]
    /\ UNCHANGED <<memVars, syncVars, procVars, kvVars, envVars, outboxStore>>

NextDecode ==
    /\ call = NoCall
    /\ \E b64 \in Base64Texts, rc \in 0..RegionsCount,
          pl \in 0..(PaletteLen + 1), runtime \in Runtimes :
           DecodeBase64ToBytes(b64, rc, pl, runtime)

SpecDecode == InitGuarded /\ [][NextDecode]_vars

\* the four conditions of the strict decode on the text handed in
DecodePasses(b64, rc, pl) ==
    /\ b64.kind \notin {"empty", "blank"}
    /\ b64.kind = "canonical"
    /\ Len(b64.bytes) = rc
    /\ \A i \in 1..Len(b64.bytes) :
           b64.bytes[i] = UNPAINTED \/ b64.bytes[i] < pl

\* C37: decodeBase64ToBytes returns a failure result when the text is empty,
\* is not structurally valid base64, decodes to a number of bytes other than
\* rc, or holds a byte that is neither UNPAINTED nor below pl; it returns ok
\* only when all four conditions pass.
C37_DecodeIsStrict ==
    call.op = "decodeBase64ToBytes"
    => (call.res.ok => DecodePasses(call.b64, call.rc, call.pl))

(* ----------------------------- commit lock ----------------------------- *)
\* the commits of taps that have not returned yet
TapCommitsInFlight ==
    {i \in CommitIds : commits[i].kind = "tap" /\ commits[i].pc # "idle"}

\* C39: at most one tap commit is in flight, and while it is awaiting the
\* commit lock stays held: a tap that is dropped meanwhile does not release
\* it.
C39_OneTapCommitInFlight ==
    /\ Cardinality(TapCommitsInFlight) <= 1
    /\ TapCommitsInFlight # {} => isCommittingRef

(* ------------------------- snapshot write order ------------------------ *)
\* no snapshot write is pending and no operation is in progress
Quiescent ==
    /\ \A i \in CommitIds : commits[i].pc = "idle"
    /\ serverRestore.pc \notin {"fetch", "saveLast", "persist"}
    /\ hardReset.pc = "idle"
    /\ localRestore.pc = "done"
    /\ openPagePending = NullPage

\* C40: when every pending snapshot write has completed and no operation is
\* in progress, the stored snapshot of the page is the one of the latest
\* in-memory state (clientRev, progress, undo stack, budget used).
C40_StoredSnapshotIsLatestState ==
    (Quiescent /\ kvSnapshot # None)
    => kvSnapshot[1] = savePageSnapshot(buildSnapshot(clientRev, progressB64,
                                                      undoStackRef, undoUsedRef))
====
